---- MODULE Spec2Model ----
(***************************************************************************)
(* putrecord: the record builder of src/lib.ts (buildRecord and its        *)
(* helper extractMarkdownTitle), modelled on strings of characters.        *)
(*                                                                         *)
(* A JavaScript string is a sequence of one-character strings.  A          *)
(* JavaScript value is a record tagged by its field t (see Str, Num); an   *)
(* object (Record<string, unknown>) is a function from keys (strings) to   *)
(* values, and objects that the program holds by reference live in a heap  *)
(* (a sequence of objects, a reference is an index into it).               *)
(***************************************************************************)
EXTENDS Integers, Sequences, FiniteSets, TLC

(***************************************************************************)
(* Characters                                                              *)
(***************************************************************************)
\* JSON insignificant whitespace (ECMA-404): space, tab, line feed, CR.
JsonWs == {" ", "\t", "\n", "\r"}
\* The characters the regular expression class \s matches, and String.trim
\* strips (restricted to the characters the model generates).
WhiteSpace == {" ", "\t", "\n", "\r"}
\* The characters "." does not match and at which ^ and $ anchor with /m.
LineTerminator == {"\n", "\r"}
Digit == {"0", "1", "2", "3", "4", "5", "6", "7", "8", "9"}

DigitVal(c) ==
  CASE c = "0" -> 0 [] c = "1" -> 1 [] c = "2" -> 2 [] c = "3" -> 3
    [] c = "4" -> 4 [] c = "5" -> 5 [] c = "6" -> 6 [] c = "7" -> 7
    [] c = "8" -> 8 [] c = "9" -> 9

DigitChar(n) ==
  CASE n = 0 -> "0" [] n = 1 -> "1" [] n = 2 -> "2" [] n = 3 -> "3"
    [] n = 4 -> "4" [] n = 5 -> "5" [] n = 6 -> "6" [] n = 7 -> "7"
    [] n = 8 -> "8" [] n = 9 -> "9"

(***************************************************************************)
(* JavaScript values                                                       *)
(***************************************************************************)
Undefined == [t |-> "undefined"]
JsNull == [t |-> "null"]
Str(s) == [t |-> "string", s |-> s]
Num(n) == [t |-> "number", n |-> n]
Bool(b) == [t |-> "boolean", b |-> b]
Arr(a) == [t |-> "array", a |-> a]
Obj(f) == [t |-> "object", o |-> f]

\* typeof x
TypeOf(x) ==
  CASE x.t = "undefined" -> "undefined"
    [] x.t = "null" -> "object"
    [] x.t = "string" -> "string"
    [] x.t = "number" -> "number"
    [] x.t = "boolean" -> "boolean"
    [] x.t = "array" -> "object"
    [] x.t = "object" -> "object"

\* ToBoolean(x): the test of `if (x)` and of `a && b`.
Truthy(x) ==
  CASE x.t = "undefined" -> FALSE
    [] x.t = "null" -> FALSE
    [] x.t = "string" -> x.s # <<>>
    [] x.t = "number" -> x.n # 0
    [] x.t = "boolean" -> x.b
    [] x.t = "array" -> TRUE
    [] x.t = "object" -> TRUE

\* obj[key] on an object held by value: undefined for a missing key.
GetField(f, key) == IF key \in DOMAIN f THEN f[key] ELSE Undefined

\* x.key for any non-nullish value x produced by JSON.parse: only objects
\* have own properties named by the keys the program reads ("$type").
GetProp(x, key) == IF x.t = "object" THEN GetField(x.o, key) ELSE Undefined

\* obj.key = val
SetField(f, key, val) == (key :> val) @@ f

(***************************************************************************)
(* JSON.parse, by recursive descent over the characters.                   *)
(* A parse result is [ok, v, p]: success, the value, the next position.    *)
(* ok = FALSE stands for the SyntaxError that JSON.parse throws.           *)
(* Number literals are integers (an optional minus sign, then 0 or a       *)
(* digit 1-9 followed by digits). String literals hold no                  *)
(* escapes: the generated texts hold no ".", "e", "E" after a digit and no *)
(* backslash.                                                              *)
(***************************************************************************)
ParseFail == [ok |-> FALSE, v |-> Undefined, p |-> 0]
ParseOk(val, next) == [ok |-> TRUE, v |-> val, p |-> next]

RECURSIVE SkipWs(_, _)
SkipWs(s, p) ==
  IF p <= Len(s) /\ s[p] \in JsonWs THEN SkipWs(s, p + 1) ELSE p

\* s[p..] starts with the word w
StartsWith(s, p, w) ==
  /\ p + Len(w) - 1 <= Len(s)
  /\ \A i \in 1..Len(w) : s[p + i - 1] = w[i]

\* The position of the closing quote of the string literal whose opening
\* quote is at p - 1, or 0 when a raw control character or the end comes first.
RECURSIVE StringEnd(_, _)
StringEnd(s, p) ==
  IF p > Len(s) THEN 0
  ELSE IF s[p] = "\"" THEN p
  ELSE IF s[p] \in {"\n", "\r", "\t", "\\"} THEN 0
  ELSE StringEnd(s, p + 1)

ParseString(s, p) ==
  IF p > Len(s) \/ s[p] # "\"" THEN ParseFail
  ELSE LET e == StringEnd(s, p + 1)
       IN IF e = 0 THEN ParseFail
          ELSE ParseOk(Str(SubSeq(s, p + 1, e - 1)), e + 1)

RECURSIVE DigitsEnd(_, _)
DigitsEnd(s, p) ==
  IF p <= Len(s) /\ s[p] \in Digit THEN DigitsEnd(s, p + 1) ELSE p

RECURSIVE DigitsVal(_, _, _, _)
DigitsVal(s, p, e, acc) ==
  IF p >= e THEN acc ELSE DigitsVal(s, p + 1, e, acc * 10 + DigitVal(s[p]))

ParseNumber(s, p) ==
  LET neg == p <= Len(s) /\ s[p] = "-"
      d == IF neg THEN p + 1 ELSE p
      e == DigitsEnd(s, d)
  IN IF e = d THEN ParseFail
     ELSE IF s[d] = "0" /\ e > d + 1 THEN ParseOk(Num(0), d + 1)
     ELSE ParseOk(Num(IF neg THEN 0 - DigitsVal(s, d, e, 0)
                      ELSE DigitsVal(s, d, e, 0)), e)

RECURSIVE ParseValue(_, _)
RECURSIVE ParseElements(_, _, _)
RECURSIVE ParseMembers(_, _, _)

\* After "[" and at least one value: the rest of the array, acc the values
\* read so far.
ParseElements(s, p, acc) ==
  LET r == ParseValue(s, p)
  IN IF ~r.ok THEN ParseFail
     ELSE LET q == SkipWs(s, r.p)
          IN IF q > Len(s) THEN ParseFail
             ELSE IF s[q] = "]" THEN ParseOk(Arr(Append(acc, r.v)), q + 1)
             ELSE IF s[q] = "," THEN ParseElements(s, q + 1, Append(acc, r.v))
             ELSE ParseFail

\* After "{" or ",": a member "key" : value and the rest of the object,
\* acc the members read so far (a repeated key keeps its last value).
ParseMembers(s, p, acc) ==
  LET k == ParseString(s, SkipWs(s, p))
  IN IF ~k.ok THEN ParseFail
     ELSE LET c == SkipWs(s, k.p)
          IN IF c > Len(s) \/ s[c] # ":" THEN ParseFail
             ELSE LET r == ParseValue(s, c + 1)
                  IN IF ~r.ok THEN ParseFail
                     ELSE LET q == SkipWs(s, r.p)
                              f == SetField(acc, k.v.s, r.v)
                          IN IF q > Len(s) THEN ParseFail
                             ELSE IF s[q] = "}" THEN ParseOk(Obj(f), q + 1)
                             ELSE IF s[q] = "," THEN ParseMembers(s, q + 1, f)
                             ELSE ParseFail

ParseValue(s, p0) ==
  LET p == SkipWs(s, p0)
  IN IF p > Len(s) THEN ParseFail
     ELSE IF s[p] = "{" THEN
       LET q == SkipWs(s, p + 1)
       IN IF q <= Len(s) /\ s[q] = "}" THEN ParseOk(Obj(<<>>), q + 1)
          ELSE ParseMembers(s, p + 1, <<>>)
     ELSE IF s[p] = "[" THEN
       LET q == SkipWs(s, p + 1)
       IN IF q <= Len(s) /\ s[q] = "]" THEN ParseOk(Arr(<<>>), q + 1)
          ELSE ParseElements(s, p + 1, <<>>)
     ELSE IF s[p] = "\"" THEN ParseString(s, p)
     ELSE IF s[p] = "-" \/ s[p] \in Digit THEN ParseNumber(s, p)
     ELSE IF StartsWith(s, p, <<"t", "r", "u", "e">>) THEN ParseOk(Bool(TRUE), p + 4)
     ELSE IF StartsWith(s, p, <<"f", "a", "l", "s", "e">>) THEN ParseOk(Bool(FALSE), p + 5)
     ELSE IF StartsWith(s, p, <<"n", "u", "l", "l">>) THEN ParseOk(JsNull, p + 4)
     ELSE ParseFail

\* JSON.parse(text): one value, then only whitespace up to the end.
JSONParse(text) ==
  LET r == ParseValue(text, 1)
  IN IF r.ok /\ SkipWs(text, r.p) = Len(text) + 1 THEN r ELSE ParseFail

(***************************************************************************)
(* extractMarkdownTitle: content.match(/^#\s+(.+)$/m), then match[1].trim() *)
(***************************************************************************)
\* ^ with the m flag: the start of the text or just after a line terminator.
AtLineStart(s, i) == i = 1 \/ s[i - 1] \in LineTerminator

\* The number of consecutive \s characters from position p on.
RECURSIVE WsRun(_, _)
WsRun(s, p) ==
  IF p <= Len(s) /\ s[p] \in WhiteSpace THEN 1 + WsRun(s, p + 1) ELSE 0

\* (.+)$ from position j on: "." takes every character up to the end of
\* the line, where $ holds; the position of the last character taken.
RECURSIVE LineEnd(_, _)
LineEnd(s, j) ==
  IF j + 1 <= Len(s) /\ s[j + 1] \notin LineTerminator
  THEN LineEnd(s, j + 1) ELSE j

\* The numbers k of characters that \s+ may take after the "#" at i so that
\* (.+)$ matches behind them: at least one, all of them \s (which includes
\* the line terminators), and then a character that "." matches.
WsTakes(s, i) ==
  {k \in 1..WsRun(s, i + 1) :
     i + k + 1 <= Len(s) /\ s[i + k + 1] \notin LineTerminator}

\* The pattern matches with its "#" at position i.
MatchesAt(s, i) == AtLineStart(s, i) /\ s[i] = "#" /\ WsTakes(s, i) # {}

Max(S) == CHOOSE x \in S : \A y \in S : y <= x
Min(S) == CHOOSE x \in S : \A y \in S : x <= y

\* match[1] of the leftmost match, \s+ greedy: it gives back characters only
\* when (.+) cannot match otherwise.
Capture(s) ==
  LET i == Min({j \in 1..Len(s) : MatchesAt(s, j)})
      k == Max(WsTakes(s, i))
  IN SubSeq(s, i + k + 1, LineEnd(s, i + k + 1))

\* String.prototype.trim
RECURSIVE TrimStart(_)
TrimStart(s) ==
  IF s # <<>> /\ Head(s) \in WhiteSpace THEN TrimStart(Tail(s)) ELSE s

RECURSIVE TrimEnd(_)
TrimEnd(s) ==
  IF s # <<>> /\ s[Len(s)] \in WhiteSpace
  THEN TrimEnd(SubSeq(s, 1, Len(s) - 1)) ELSE s

Trim(s) == TrimEnd(TrimStart(s))

extractMarkdownTitle(content) ==
  IF \E i \in 1..Len(content) : MatchesAt(content, i)
  THEN Str(Trim(Capture(content)))
  ELSE Undefined

(***************************************************************************)
(* new Date().toISOString() for a clock below one minute after the epoch   *)
(***************************************************************************)
IsoPrefix == <<"1", "9", "7", "0", "-", "0", "1", "-", "0", "1", "T", "0", "0", ":", "0", "0", ":">>

ToISOString(ms) ==
  LET sec == ms \div 1000
      frac == ms % 1000
  IN IsoPrefix
     \o <<DigitChar(sec \div 10), DigitChar(sec % 10), ".">>
     \o <<DigitChar(frac \div 100), DigitChar((frac \div 10) % 10), DigitChar(frac % 10)>>
     \o <<"Z">>

(***************************************************************************)
(* buildRecord                                                             *)
(***************************************************************************)
KeyType == <<"$", "t", "y", "p", "e">>
KeyContent == <<"c", "o", "n", "t", "e", "n", "t">>
KeyCreatedAt == <<"c", "r", "e", "a", "t", "e", "d", "A", "t">>
KeyVisibility == <<"v", "i", "s", "i", "b", "i", "l", "i", "t", "y">>
KeyTitle == <<"t", "i", "t", "l", "e">>
WhiteWind == <<"c", "o", "m", ".", "w", "h", "t", "w", "n", "d", ".", "b", "l", "o", "g", ".", "e", "n", "t", "r", "y">>
Public == <<"p", "u", "b", "l", "i", "c">>

\* The absent existingRecord argument (undefined); a present one is a
\* reference into the heap, 1 or more.
Null == 0

\* `new` of an object: a fresh reference, the heap grown by the object.
Alloc(h, obj) == [heap |-> Append(h, obj), ret |-> Len(h) + 1, threw |-> FALSE]

\* An exception leaving the function: nothing allocated, nothing returned.
Throw(h) == [heap |-> h, ret |-> Null, threw |-> TRUE]

\* Mutant: the test on $type is `parsed.$type` (truthiness) in place of
\* typeof parsed.$type === "string".
IsPassThroughTruthyType(parsed) ==
  /\ TypeOf(parsed) = "object"
  /\ parsed # JsNull
  /\ Truthy(GetProp(parsed, KeyType))

\* Mutant: the test on $type is `"$type" in parsed`.
IsPassThroughAnyType(parsed) ==
  /\ TypeOf(parsed) = "object"
  /\ parsed # JsNull
  /\ parsed.t = "object"
  /\ KeyType \in DOMAIN parsed.o

\* typeof parsed === "object" && parsed !== null &&
\* typeof parsed.$type === "string"
IsPassThrough(parsed) ==
  /\ TypeOf(parsed) = "object"
  /\ parsed # JsNull
  /\ TypeOf(GetProp(parsed, KeyType)) = "string"

\* Mutant: no try/catch around JSON.parse.
TryBlockNoCatch(content) ==
  LET r == JSONParse(content)
  IN IF ~r.ok THEN "throw"
     ELSE IF IsPassThrough(r.v) THEN "return"
     ELSE "continue"

\* try { parse; if (...) return parsed } catch { }: how the block ends.
\* "return": it returns parsed; "continue": control reaches the collection
\* handling, after the if failed or after catch swallowed the SyntaxError;
\* "throw": an exception leaves buildRecord.
TryBlock(content) ==
  LET r == JSONParse(content)
  IN IF ~r.ok THEN "continue"
     ELSE IF IsPassThrough(r.v) THEN "return"
     ELSE "continue"

\* Mutant: the time of the call is also stamped into an updatedAt field.
BaseRecordStampsUpdatedAt(collection, content, now) ==
  (KeyType :> Str(collection)) @@ (KeyContent :> Str(content))
    @@ (KeyCreatedAt :> Str(ToISOString(now)))
    @@ (<<"u", "p", "d", "a", "t", "e", "d", "A", "t">> :> Str(ToISOString(now)))

\* { $type: collection, content, createdAt: new Date().toISOString() }
BaseRecord(collection, content, now) ==
  (KeyType :> Str(collection)) @@ (KeyContent :> Str(content))
    @@ (KeyCreatedAt :> Str(ToISOString(now)))

\* Mutant: the visibility test lacks `!forceFields`.
HandleVisibilityIgnoresForce(record, h, existingRecord, forceFields) ==
  IF /\ existingRecord # Null
     /\ Truthy(GetField(h[existingRecord], KeyVisibility))
  THEN SetField(record, KeyVisibility, GetField(h[existingRecord], KeyVisibility))
  ELSE SetField(record, KeyVisibility, Str(Public))

\* Mutant: the visibility test is `existingRecord.visibility !== undefined`.
HandleVisibilityIfDefined(record, h, existingRecord, forceFields) ==
  IF /\ existingRecord # Null
     /\ ~forceFields
     /\ GetField(h[existingRecord], KeyVisibility) # Undefined
  THEN SetField(record, KeyVisibility, GetField(h[existingRecord], KeyVisibility))
  ELSE SetField(record, KeyVisibility, Str(Public))

\* "Handle visibility field": record after the if/else on visibility.
HandleVisibility(record, h, existingRecord, forceFields) ==
  IF /\ existingRecord # Null
     /\ ~forceFields
     /\ Truthy(GetField(h[existingRecord], KeyVisibility))
  THEN SetField(record, KeyVisibility, GetField(h[existingRecord], KeyVisibility))
  ELSE SetField(record, KeyVisibility, Str(Public))

\* Mutant: the extracted title is preferred to the existing one.
HandleTitlePrefersExtracted(record, h, existingRecord, forceFields, extractedTitle) ==
  IF Truthy(extractedTitle)
  THEN SetField(record, KeyTitle, extractedTitle)
  ELSE IF /\ existingRecord # Null
          /\ ~forceFields
          /\ Truthy(GetField(h[existingRecord], KeyTitle))
  THEN SetField(record, KeyTitle, GetField(h[existingRecord], KeyTitle))
  ELSE record

\* Mutant: the else branch assigns the extracted title without testing it.
HandleTitleAlwaysSet(record, h, existingRecord, forceFields, extractedTitle) ==
  IF /\ existingRecord # Null
     /\ ~forceFields
     /\ Truthy(GetField(h[existingRecord], KeyTitle))
  THEN SetField(record, KeyTitle, GetField(h[existingRecord], KeyTitle))
  ELSE SetField(record, KeyTitle, extractedTitle)

\* "Handle title field": record after the if/else-if on title.
HandleTitle(record, h, existingRecord, forceFields, extractedTitle) ==
  IF /\ existingRecord # Null
     /\ ~forceFields
     /\ Truthy(GetField(h[existingRecord], KeyTitle))
  THEN SetField(record, KeyTitle, GetField(h[existingRecord], KeyTitle))
  ELSE IF Truthy(extractedTitle)
  THEN SetField(record, KeyTitle, extractedTitle)
  ELSE record

\* Mutant: the blog record starts as a copy of existingRecord
\* ({ ...existingRecord, $type, content, createdAt }).
BlogRecordSpreadsExisting(h, collection, content, existingRecord, forceFields, now) ==
  LET extractedTitle == extractMarkdownTitle(content)
      record == IF existingRecord # Null
                THEN BaseRecord(collection, content, now) @@ h[existingRecord]
                ELSE BaseRecord(collection, content, now)
  IN HandleTitle(HandleVisibility(record, h, existingRecord, forceFields),
                 h, existingRecord, forceFields, extractedTitle)

\* The WhiteWind branch: the record it builds and returns.
BlogRecord(h, collection, content, existingRecord, forceFields, now) ==
  LET extractedTitle == extractMarkdownTitle(content)
      record == BaseRecord(collection, content, now)
  IN HandleTitle(HandleVisibility(record, h, existingRecord, forceFields),
                 h, existingRecord, forceFields, extractedTitle)

\* Mutant: the collection is not tested, every record gets the blog fields.
buildRecordAlwaysBlog(h, collection, content, existingRecord, forceFields, now) ==
  LET t == TryBlock(content)
  IN IF t = "throw" THEN Throw(h)
     ELSE IF t = "return" THEN Alloc(h, JSONParse(content).v.o)
     ELSE Alloc(h, BlogRecord(h, collection, content, existingRecord, forceFields, now))

\* Mutant: the blog branch writes the new fields into existingRecord and
\* returns it (Object.assign(existingRecord, ...)).
buildRecordInPlace(h, collection, content, existingRecord, forceFields, now) ==
  LET t == TryBlock(content)
  IN IF t = "throw" THEN Throw(h)
     ELSE IF t = "return" THEN Alloc(h, JSONParse(content).v.o)
     ELSE IF collection = WhiteWind
     THEN IF existingRecord # Null
          THEN [heap |-> [h EXCEPT ![existingRecord] =
                            BlogRecord(h, collection, content, existingRecord, forceFields, now) @@ @],
                ret |-> existingRecord,
                threw |-> FALSE]
          ELSE Alloc(h, BlogRecord(h, collection, content, existingRecord, forceFields, now))
     ELSE Alloc(h, BaseRecord(collection, content, now))

\* buildRecord(collection, content, existingRecord, forceFields) called on
\* heap h at time now: the heap after the call, the reference returned, and
\* whether the call threw.
buildRecord(h, collection, content, existingRecord, forceFields, now) ==
  LET t == TryBlock(content)
  IN IF t = "throw" THEN Throw(h)
     ELSE IF t = "return" THEN Alloc(h, JSONParse(content).v.o)
     ELSE IF collection = WhiteWind
     THEN Alloc(h, BlogRecord(h, collection, content, existingRecord, forceFields, now))
     ELSE Alloc(h, BaseRecord(collection, content, now))

(***************************************************************************)
(* The inputs of the calls                                                 *)
(***************************************************************************)
\* Bounds
MaxLen == 3
MaxClock == 1

\* Contents: the texts below (structured pass-through, other valid JSON,
\* malformed JSON, plain text and markdown) and every text of at most MaxLen
\* characters over Alphabet.
JsonTyped == <<"{", "\"", "$", "t", "y", "p", "e", "\"", ":", "\"", "a", "\"", "}">>
JsonTypedEmpty == <<"{", "\"", "$", "t", "y", "p", "e", "\"", ":", "\"", "\"", "}">>
JsonTypedSpaced == <<" ", "{", "\n", "\"", "$", "t", "y", "p", "e", "\"", " ", ":", " ", "\"", "a", "\"", " ", "}", "\n">>
JsonTypedFields == <<"{", "\"", "$", "t", "y", "p", "e", "\"", ":", "\"", "a", "\"", ",", "\"", "t", "i", "t", "l", "e", "\"", ":", "\"", "T", "\"", ",", "\"", "n", "\"", ":", "[", "1", ",", "n", "u", "l", "l", "]", "}">>
JsonTypedBlog == <<"{", "\"", "$", "t", "y", "p", "e", "\"", ":", "\"", "b", "\"", ",", "\"", "v", "i", "s", "i", "b", "i", "l", "i", "t", "y", "\"", ":", "\"", "a", "u", "t", "h", "o", "r", "\"", ",", "\"", "c", "r", "e", "a", "t", "e", "d", "A", "t", "\"", ":", "\"", "x", "\"", "}">>
JsonTypedTwice == <<"{", "\"", "$", "t", "y", "p", "e", "\"", ":", "1", ",", "\"", "$", "t", "y", "p", "e", "\"", ":", "\"", "a", "\"", "}">>
JsonNoType == <<"{", "\"", "t", "i", "t", "l", "e", "\"", ":", "\"", "T", "\"", ",", "\"", "v", "a", "l", "u", "e", "\"", ":", "4", "2", "}">>
JsonEmptyObject == <<"{", "}">>
JsonTypeNumber == <<"{", "\"", "$", "t", "y", "p", "e", "\"", ":", "1", "}">>
JsonTypeNull == <<"{", "\"", "$", "t", "y", "p", "e", "\"", ":", "n", "u", "l", "l", "}">>
JsonTypeObject == <<"{", "\"", "$", "t", "y", "p", "e", "\"", ":", "{", "\"", "$", "t", "y", "p", "e", "\"", ":", "\"", "a", "\"", "}", "}">>
JsonArray == <<"[", "{", "\"", "$", "t", "y", "p", "e", "\"", ":", "\"", "a", "\"", "}", "]">>
JsonNumber == <<"4", "2">>
JsonZero == <<"0">>
JsonString == <<"\"", "$", "t", "y", "p", "e", "\"">>
JsonTrue == <<"t", "r", "u", "e">>
JsonFalse == <<"f", "a", "l", "s", "e">>
JsonNull == <<"n", "u", "l", "l">>
BadJsonOpen == <<"{", "\"", "$", "t", "y", "p", "e", "\"", ":", "\"", "a", "\"">>
BadJsonTrailing == <<"{", "\"", "$", "t", "y", "p", "e", "\"", ":", "\"", "a", "\"", "}", "x">>
BadJsonBareKey == <<"{", "$", "t", "y", "p", "e", ":", "\"", "a", "\"", "}">>
BadJsonComma == <<"{", "\"", "$", "t", "y", "p", "e", "\"", ":", "\"", "a", "\"", ",", "}">>
BadJsonHeading == <<"#", " ", "T", "\n", "{", "\"", "$", "t", "y", "p", "e", "\"", ":", "\"", "a", "\"", "}">>
TextPlain == <<"H", "e", "l", "l", "o", " ", "w", "o", "r", "l", "d">>
MdTitleBody == <<"#", " ", "T", "i", "t", "l", "e", "\n", "\n", "B", "o", "d", "y">>
MdLateHeading == <<"B", "o", "d", "y", "\n", "#", " ", "T">>
MdTwoHeadings == <<"#", " ", "A", "\n", "#", " ", "B">>
MdLevelTwo == <<"#", "#", " ", "T", "\n", "x">>
MdPadded == <<"#", "\t", " ", " ", "T", " ", " ", "\n", "x">>
MdBareThenText == <<"#", "\n", "\n", "B", "o", "d", "y">>
MdBlankThenHeading == <<"#", " ", " ", "\n", "#", " ", "R", "e", "a", "l">>
MdCarriageReturn == <<"#", " ", "T", "\r", "\n", "x">>

SampleContents ==
  {JsonTyped,
   JsonTypedEmpty,
   JsonTypedSpaced,
   JsonTypedFields,
   JsonTypedBlog,
   JsonTypedTwice,
   JsonNoType,
   JsonEmptyObject,
   JsonTypeNumber,
   JsonTypeNull,
   JsonTypeObject,
   JsonArray,
   JsonNumber,
   JsonZero,
   JsonString,
   JsonTrue,
   JsonFalse,
   JsonNull,
   BadJsonOpen,
   BadJsonTrailing,
   BadJsonBareKey,
   BadJsonComma,
   BadJsonHeading,
   TextPlain,
   MdTitleBody,
   MdLateHeading,
   MdTwoHeadings,
   MdLevelTwo,
   MdPadded,
   MdBareThenText,
   MdBlankThenHeading,
   MdCarriageReturn}

Alphabet == {"#", " ", "\n", "a"}
ShortContents == UNION {[1..n -> Alphabet] : n \in 0..MaxLen}
Contents == SampleContents \cup ShortContents

Note == <<"c", "o", "m", ".", "e", "x", "a", "m", "p", "l", "e", ".", "n", "o", "t", "e">>
Old == <<"O", "l", "d", " ", "C", "u", "s", "t", "o", "m">>
Author == <<"a", "u", "t", "h", "o", "r">>
Dark == <<"d", "a", "r", "k">>
OldStamp == <<"2", "0", "2", "5", "-", "0", "1", "-", "0", "1", "T", "0", "0", ":", "0", "0", ":", "0", "0", ".", "0", "0", "0", "Z">>
OldBody == <<"#", " ", "O", "l", "d", "\n", "\n", "O", "l", "d", " ", "b", "o", "d", "y">>
KeyTheme == <<"t", "h", "e", "m", "e">>

Collections == {WhiteWind, Note, <<>>}

\* Records a caller may hold from an earlier fetch or build.
OldEntry ==
  (KeyType :> Str(WhiteWind)) @@ (KeyContent :> Str(OldBody))
    @@ (KeyCreatedAt :> Str(OldStamp))
WithFields(title, visibility) ==
  SetField(SetField(OldEntry, KeyTitle, title), KeyVisibility, visibility)
ExistingRecords ==
  {OldEntry,
   <<>>,
   SetField(OldEntry, KeyTitle, Str(Old)),
   SetField(OldEntry, KeyVisibility, Str(Author)),
   SetField(WithFields(Str(Old), Str(Author)), KeyTheme, Str(Dark)),
   WithFields(Str(Old), Str(Public)),
   WithFields(Str(Old), Str(<<>>)),
   WithFields(Str(<<>>), Str(Author)),
   WithFields(Str(<<>>), Str(<<>>)),
   WithFields(Num(0), JsNull),
   WithFields(Num(5), Bool(TRUE)),
   WithFields(Arr(<<>>), Obj(<<>>))}

(***************************************************************************)
(* One call of buildRecord                                                 *)
(***************************************************************************)
VARIABLES
  pc,              \* "start": before the call, "done": after it
  heap,            \* the objects held by reference
  collection,      \* argument: a string
  content,         \* argument: a string
  existingRecord,  \* argument: Null or a reference
  forceFields,     \* argument: a boolean
  clock,           \* milliseconds since the epoch, read by new Date()
  ret,             \* the reference returned, Null before the return
  threw            \* the call ended by an exception

\* A series of calls of buildRecord (specification SpecCalls).
VARIABLES
  calls            \* the calls made or under way: arguments and returned reference

\* The library functions and the server they talk to (SpecConfig, SpecLib,
\* SpecCli).
VARIABLES
  env,             \* Deno.env: variable name -> string, absent when unset
  config,          \* the Config in use
  store,           \* the repository on the PDS: rkey -> record
  requests,        \* the XRPC requests received by the PDS and its answers, in order
  outcome          \* what the last library call returned or threw

\* One run of the command line (SpecCli).
VARIABLES
  cpc,             \* position in main()
  flags,           \* parseArgs(Deno.args): quiet, help, version
  file,            \* the file at FILE_PATH: its text, or unreadable
  rec,             \* the record built from the file, or given to a library call
  stdout,          \* console.log output, one entry per call
  stderr,          \* console.error output, one entry per call
  exitCode,        \* the code given to Deno.exit, Running before
  steps            \* the steps of main() taken so far

buildVars == <<pc, heap, collection, content, existingRecord, forceFields, clock, ret, threw>>
callsVars == <<calls>>
libVars == <<env, config, store, requests, outcome>>
cliVars == <<cpc, flags, file, rec, stdout, stderr, exitCode, steps>>
vars == <<buildVars, callsVars, libVars, cliVars>>

\* The parts of the state a specification does not use stay as they are here.
IdleCalls == calls = <<>>
NoOutcome == [op |-> "none", threw |-> FALSE, message |-> <<>>, ret |-> Undefined]
IdleLib ==
  /\ env = <<>> /\ config = <<>> /\ store = <<>>
  /\ requests = <<>> /\ outcome = NoOutcome
IdleCli ==
  /\ cpc = "idle" /\ flags = <<>> /\ file = <<>> /\ rec = <<>>
  /\ stdout = <<>> /\ stderr = <<>> /\ exitCode = -1 /\ steps = <<>>

Init ==
  /\ pc = "start"
  /\ collection \in Collections
  /\ content \in Contents
  /\ forceFields \in BOOLEAN
  /\ \/ heap = <<>> /\ existingRecord = Null
     \/ \E r \in ExistingRecords : heap = <<r>> /\ existingRecord = 1
  /\ clock = 0
  /\ ret = Null
  /\ threw = FALSE
  /\ IdleCalls /\ IdleLib /\ IdleCli

\* Time passes before the call.
Tick ==
  /\ pc = "start"
  /\ clock < MaxClock
  /\ clock' = clock + 1
  /\ UNCHANGED <<pc, heap, collection, content, existingRecord, forceFields, ret, threw>>
  /\ UNCHANGED <<callsVars, libVars, cliVars>>

\* The call buildRecord(collection, content, existingRecord, forceFields).
BuildRecord ==
  /\ pc = "start"
  /\ LET r == buildRecord(heap, collection, content, existingRecord, forceFields, clock)
     IN /\ heap' = r.heap
        /\ ret' = r.ret
        /\ threw' = r.threw
  /\ pc' = "done"
  /\ UNCHANGED <<collection, content, existingRecord, forceFields, clock>>
  /\ UNCHANGED <<callsVars, libVars, cliVars>>

Next == Tick \/ BuildRecord

Spec == Init /\ [][Next]_vars

(***************************************************************************)
(* Vocabulary of the properties                                            *)
(***************************************************************************)
Done == pc = "done"
\* The call returned a record.
Returned == Done /\ ~threw /\ ret \in DOMAIN heap
Result == heap[ret]
ResultField(key) == GetField(Result, key)
HasExisting == existingRecord # Null
ExistingField(key) == GetField(heap[existingRecord], key)
Parsed == JSONParse(content)
Extracted == extractMarkdownTitle(content)

\* The content parses as a JSON non-null object with a string-valued $type.
StructuredPassThrough ==
  /\ Parsed.ok
  /\ Parsed.v.t = "object"
  /\ KeyType \in DOMAIN Parsed.v.o
  /\ Parsed.v.o[KeyType].t = "string"

\* The call is one for the blog collection whose content is not passed through.
OnBlogPath == collection = WhiteWind /\ ~StructuredPassThrough

\* t occurs in s as a run of consecutive characters.
IsSubstring(t, s) ==
  \E i \in 1..(Len(s) - Len(t) + 1) : SubSeq(s, i, i + Len(t) - 1) = t

\* s has the shape YYYY-MM-DDTHH:MM:SS.mmmZ.
IsIso8601(s) ==
  /\ Len(s) = 24
  /\ s[5] = "-" /\ s[8] = "-" /\ s[11] = "T" /\ s[14] = ":" /\ s[17] = ":"
  /\ s[20] = "." /\ s[24] = "Z"
  /\ \A i \in (1..23) \ {5, 8, 11, 14, 17, 20} : s[i] \in Digit

\* The milliseconds after the start of its minute that an ISO string denotes.
IsoMillis(s) ==
  DigitVal(s[18]) * 10000 + DigitVal(s[19]) * 1000
    + DigitVal(s[21]) * 100 + DigitVal(s[22]) * 10 + DigitVal(s[23])

\* The result's createdAt is the ISO-8601 string of the time of the call.
FreshCreatedAt ==
  /\ ResultField(KeyCreatedAt).t = "string"
  /\ IsIso8601(ResultField(KeyCreatedAt).s)
  /\ SubSeq(ResultField(KeyCreatedAt).s, 1, 17) = IsoPrefix
  /\ IsoMillis(ResultField(KeyCreatedAt).s) = clock

\* A record without its createdAt.
WithoutCreatedAt(f) == [k \in DOMAIN f \ {KeyCreatedAt} |-> f[k]]

\* The title of the result is the extracted heading, or absent when the
\* extraction gives none (or an empty one).
TitleIsExtracted ==
  IF Truthy(Extracted)
  THEN ResultField(KeyTitle) = Extracted
  ELSE KeyTitle \notin DOMAIN Result

\* The lines of a text, each named by the position of its first character.
LineAt(s, i) ==
  LET ends == {j \in i..Len(s) : s[j] \in LineTerminator}
  IN SubSeq(s, i, IF ends = {} THEN Len(s) ELSE Min(ends) - 1)

\* A level-1 heading: a line that begins with a single "#" followed by
\* whitespace and then text.
IsHeadingLine(line) ==
  /\ Len(line) >= 3
  /\ line[1] = "#"
  /\ line[2] \in WhiteSpace
  /\ Trim(Tail(line)) # <<>>

HeadingLines(s) ==
  {i \in 1..Len(s) : AtLineStart(s, i) /\ IsHeadingLine(LineAt(s, i))}

FirstHeadingText(s) == Trim(Tail(LineAt(s, Min(HeadingLines(s)))))

(***************************************************************************)
(* Properties                                                              *)
(***************************************************************************)

\* C1: for every content that parses as a JSON non-null object with a
\* string-valued $type, buildRecord returns exactly the parsed object, for
\* every collection, every existingRecord and both values of forceFields.
C1_PassThroughIdentity ==
  (Done /\ StructuredPassThrough) => (Returned /\ Result = Parsed.v.o)

\* C1 witness: a pass-through for the blog collection with an existing
\* record and forceFields, whose result keeps its own title and has no
\* createdAt.
C1_Witness ==
  /\ Returned /\ StructuredPassThrough
  /\ collection = WhiteWind /\ HasExisting /\ forceFields
  /\ KeyTitle \in DOMAIN Result
  /\ KeyCreatedAt \notin DOMAIN Result

\* C2: on the blog path with forceFields = false and an existingRecord whose
\* title and visibility are both truthy, the output title and visibility are
\* those of existingRecord, whatever heading the new content has, and the
\* output content is the new raw content.
C2_PreservesExistingFields ==
  (/\ Done /\ OnBlogPath /\ ~forceFields /\ HasExisting
   /\ Truthy(ExistingField(KeyTitle))
   /\ Truthy(ExistingField(KeyVisibility)))
  => (/\ Returned
      /\ ResultField(KeyTitle) = ExistingField(KeyTitle)
      /\ ResultField(KeyVisibility) = ExistingField(KeyVisibility)
      /\ ResultField(KeyContent) = Str(content))

\* C2 witness: such a call whose new content has a heading that differs from
\* the existing title.
C2_Witness ==
  /\ Returned /\ OnBlogPath /\ ~forceFields /\ HasExisting
  /\ Truthy(ExistingField(KeyTitle))
  /\ Truthy(ExistingField(KeyVisibility))
  /\ Truthy(Extracted)
  /\ Extracted # ExistingField(KeyTitle)

C4_NewBlogEntry ==
  (Done /\ OnBlogPath /\ ~HasExisting)
  => (/\ Returned
      /\ ResultField(KeyType) = Str(collection)
      /\ ResultField(KeyContent) = Str(content)
      /\ FreshCreatedAt
      /\ ResultField(KeyVisibility) = Str(Public)
      /\ IF HeadingLines(content) # {}
         THEN ResultField(KeyTitle) = Str(FirstHeadingText(content))
         ELSE KeyTitle \notin DOMAIN Result)

\* C5: for every collection other than the blog collection and every content
\* that is not a structured pass-through, buildRecord returns a record with
\* exactly the keys $type (the collection), content (the raw content) and
\* createdAt (an ISO-8601 timestamp), for every existingRecord and
\* forceFields.
C5_GenericRecord ==
  (Done /\ collection # WhiteWind /\ ~StructuredPassThrough)
  => (/\ Returned
      /\ DOMAIN Result = {KeyType, KeyContent, KeyCreatedAt}
      /\ ResultField(KeyType) = Str(collection)
      /\ ResultField(KeyContent) = Str(content)
      /\ FreshCreatedAt)

\* C5 witness: a generic record built, after the clock advanced, from
\* content with a heading while an existing record with a truthy title and
\* visibility is passed.
C5_Witness ==
  /\ Returned /\ collection = Note /\ ~StructuredPassThrough
  /\ HasExisting /\ ~forceFields
  /\ Truthy(ExistingField(KeyTitle))
  /\ Truthy(ExistingField(KeyVisibility))
  /\ Truthy(Extracted)
  /\ clock > 0

C7_OtherJsonWrapped ==
  (Done /\ Parsed.ok /\ ~StructuredPassThrough)
  => (/\ Returned
      /\ ResultField(KeyType) = Str(collection)
      /\ ResultField(KeyContent) = Str(content)
      /\ FreshCreatedAt)

\* C7 witness: a wrapped JSON object that has a $type which is no string.
C7_Witness ==
  /\ Returned /\ Parsed.ok /\ ~StructuredPassThrough
  /\ Parsed.v.t = "object"
  /\ KeyType \in DOMAIN Parsed.v.o
  /\ ResultField(KeyContent) = Str(content)

VisibilityAndDerivedTitle ==
  /\ Returned
  /\ KeyVisibility \in DOMAIN Result
  /\ KeyTitle \in DOMAIN Result
     => \/ /\ HasExisting /\ ~forceFields
           /\ Truthy(ExistingField(KeyTitle))
           /\ ResultField(KeyTitle) = ExistingField(KeyTitle)
        \/ /\ ResultField(KeyTitle).t = "string"
           /\ ResultField(KeyTitle).s # <<>>
           /\ IsSubstring(ResultField(KeyTitle).s, content)

C10_InputsNotMutated ==
  [][(pc = "start" /\ pc' = "done")
     => (/\ \A a \in DOMAIN heap : a \in DOMAIN heap' /\ heap'[a] = heap[a]
         /\ existingRecord' = existingRecord
         /\ content' = content /\ collection' = collection
         /\ ret' \in DOMAIN heap' /\ ret' \notin DOMAIN heap
         /\ ret' # existingRecord)]_vars

\* C10 witness: a blog-path call that copied the existing title into a new
\* record with the new content.
C10_Witness ==
  /\ Returned /\ OnBlogPath /\ HasExisting /\ ~forceFields
  /\ Truthy(ExistingField(KeyTitle))
  /\ ResultField(KeyTitle) = ExistingField(KeyTitle)
  /\ ResultField(KeyContent) # ExistingField(KeyContent)
  /\ ret # existingRecord

MaxCalls == 3

CallCollections == {WhiteWind, Note}
CallContents == {MdTitleBody, JsonTyped}

\* The caller holds one record fetched earlier and makes calls one after the
\* other, each at a later time than the one before.
InitCalls ==
  /\ pc = "calls"
  /\ heap = <<SetField(WithFields(Str(Old), Str(Author)), KeyTheme, Str(Dark))>>
  /\ clock = 0
  /\ calls = <<>>
  /\ collection = <<>> /\ content = <<>> /\ existingRecord = Null
  /\ forceFields = FALSE /\ ret = Null /\ threw = FALSE
  /\ IdleLib /\ IdleCli

Call ==
  /\ pc = "calls"
  /\ Len(calls) < MaxCalls
  /\ \E c \in CallCollections, t \in CallContents, e \in {Null, 1}, f \in BOOLEAN :
       LET r == buildRecord(heap, c, t, e, f, clock)
       IN /\ heap' = r.heap
          /\ calls' = Append(calls, [collection |-> c, content |-> t,
                                     existingRecord |-> e, forceFields |-> f,
                                     ret |-> r.ret, threw |-> r.threw])
  /\ clock' = clock + 1
  /\ UNCHANGED <<pc, collection, content, existingRecord, forceFields, ret, threw>>
  /\ UNCHANGED <<libVars, cliVars>>

NextCalls == Call
SpecCalls == InitCalls /\ [][NextCalls]_vars

\* Calls i and j were given identical arguments.
SameArguments(i, j) ==
  /\ calls[i].collection = calls[j].collection
  /\ calls[i].content = calls[j].content
  /\ calls[i].existingRecord = calls[j].existingRecord
  /\ calls[i].forceFields = calls[j].forceFields

\* Calls i and j ended the same way, with records equal apart from createdAt.
SameOutcome(i, j) ==
  /\ calls[i].threw = calls[j].threw
  /\ ~calls[i].threw =>
       WithoutCreatedAt(heap[calls[i].ret]) = WithoutCreatedAt(heap[calls[j].ret])

\* C11: two calls of buildRecord with identical collection, content,
\* existingRecord and forceFields return records that are equal in every
\* field other than createdAt, whatever calls were made between them.
C11_DeterministicUpToTimestamp ==
  \A i, j \in DOMAIN calls : SameArguments(i, j) => SameOutcome(i, j)

\* Two calls with identical arguments, a different call between them, and
\* createdAt values that differ.
C11_Witness ==
  /\ Len(calls) = 3
  /\ SameArguments(1, 3)
  /\ ~SameArguments(1, 2)
  /\ calls[1].collection = WhiteWind /\ calls[1].existingRecord = 1
  /\ calls[2].existingRecord = 1 /\ calls[2].forceFields
  /\ ~calls[1].threw /\ ~calls[3].threw
  /\ KeyCreatedAt \in DOMAIN heap[calls[1].ret]
  /\ heap[calls[1].ret][KeyCreatedAt] # heap[calls[3].ret][KeyCreatedAt]

(***************************************************************************)
(* loadConfig                                                              *)
(***************************************************************************)
PdsUrlVar == <<"P", "D", "S", "_", "U", "R", "L">>
IdentifierVar == <<"I", "D", "E", "N", "T", "I", "F", "I", "E", "R">>
AppPasswordVar == <<"A", "P", "P", "_", "P", "A", "S", "S", "W", "O", "R", "D">>
CollectionVar == <<"C", "O", "L", "L", "E", "C", "T", "I", "O", "N">>
FilePathVar == <<"F", "I", "L", "E", "_", "P", "A", "T", "H">>
RkeyVar == <<"R", "K", "E", "Y">>
MissingPrefix == <<"M", "i", "s", "s", "i", "n", "g", " ", "r", "e", "q", "u", "i", "r", "e", "d", " ", "e", "n", "v", "i", "r", "o", "n", "m", "e", "n", "t", " ", "v", "a", "r", "i", "a", "b", "l", "e", ":", " ">>

\* const required = [...]
Required == <<PdsUrlVar, IdentifierVar, AppPasswordVar, CollectionVar, FilePathVar>>

\* Deno.env.get(key): the string the variable holds, undefined when unset.
EnvGet(e, key) == IF key \in DOMAIN e THEN Str(e[key]) ELSE Undefined

\* How a library call ended: by returning ret or by throwing Error(message).
Returns(value) == [threw |-> FALSE, message |-> <<>>, ret |-> value]
Throws(message) == [threw |-> TRUE, message |-> message, ret |-> Undefined]
\* The end r of a call of the function named op.
Outcome(op, r) == [op |-> op, threw |-> r.threw, message |-> r.message, ret |-> r.ret]

\* Mutant: a required variable is missing only when it is unset
\* (Deno.env.get(key) === undefined).
loadConfigUnsetOnly(e) ==
  LET missing == {i \in DOMAIN Required : EnvGet(e, Required[i]) = Undefined}
  IN IF missing # {}
     THEN Throws(MissingPrefix \o Required[Min(missing)])
     ELSE Returns([pdsUrl |-> EnvGet(e, PdsUrlVar),
                   identifier |-> EnvGet(e, IdentifierVar),
                   password |-> EnvGet(e, AppPasswordVar),
                   collection |-> EnvGet(e, CollectionVar),
                   rkey |-> IF Truthy(EnvGet(e, RkeyVar))
                            THEN EnvGet(e, RkeyVar) ELSE Undefined,
                   filePath |-> EnvGet(e, FilePathVar)])

\* loadConfig() in environment e: the for loop throws at the first required
\* variable that is unset or empty; otherwise the Config is returned.
loadConfig(e) ==
  LET missing == {i \in DOMAIN Required : ~Truthy(EnvGet(e, Required[i]))}
  IN IF missing # {}
     THEN Throws(MissingPrefix \o Required[Min(missing)])
     ELSE Returns([pdsUrl |-> EnvGet(e, PdsUrlVar),
                   identifier |-> EnvGet(e, IdentifierVar),
                   password |-> EnvGet(e, AppPasswordVar),
                   collection |-> EnvGet(e, CollectionVar),
                   rkey |-> IF Truthy(EnvGet(e, RkeyVar))
                            THEN EnvGet(e, RkeyVar) ELSE Undefined,
                   filePath |-> EnvGet(e, FilePathVar)])

EnvNames == {PdsUrlVar, IdentifierVar, AppPasswordVar, CollectionVar, FilePathVar, RkeyVar}
EnvValues == {<<>>, <<"a">>, <<"b">>}
Environments == UNION {[D -> EnvValues] : D \in SUBSET EnvNames}

InitConfig ==
  /\ pc = "config"
  /\ env \in Environments
  /\ config = <<>> /\ store = <<>> /\ requests = <<>> /\ outcome = NoOutcome
  /\ heap = <<>> /\ clock = 0
  /\ collection = <<>> /\ content = <<>> /\ existingRecord = Null
  /\ forceFields = FALSE /\ ret = Null /\ threw = FALSE
  /\ IdleCalls /\ IdleCli

\* const config = loadConfig();
LoadConfig ==
  /\ pc = "config"
  /\ outcome' = Outcome("loadConfig", loadConfig(env))
  /\ config' = IF outcome'.threw THEN config ELSE outcome'.ret
  /\ pc' = "loaded"
  /\ UNCHANGED <<heap, collection, content, existingRecord, forceFields, clock, ret, threw>>
  /\ UNCHANGED <<env, store, requests>>
  /\ UNCHANGED <<callsVars, cliVars>>

NextConfig == LoadConfig
SpecConfig == InitConfig /\ [][NextConfig]_vars

\* The variable is unset or holds the empty string.
UnsetOrEmpty(key) == key \notin DOMAIN env \/ env[key] = <<>>

ThrewMissingVariable ==
  /\ outcome.threw
  /\ Len(outcome.message) > Len(MissingPrefix)
  /\ SubSeq(outcome.message, 1, Len(MissingPrefix)) = MissingPrefix

\* C14: loadConfig throws "Missing required environment variable" exactly
\* when one of PDS_URL, IDENTIFIER, APP_PASSWORD, COLLECTION, FILE_PATH is
\* unset or empty; otherwise it returns a Config holding those five values,
\* with rkey the value of RKEY when that is non-empty and undefined when RKEY
\* is unset or empty.
C14_LoadConfig ==
  pc = "loaded"
  => /\ ThrewMissingVariable <=> (\E i \in DOMAIN Required : UnsetOrEmpty(Required[i]))
     /\ ~ThrewMissingVariable
        => /\ ~outcome.threw
           /\ outcome.ret = [pdsUrl |-> Str(env[PdsUrlVar]),
                             identifier |-> Str(env[IdentifierVar]),
                             password |-> Str(env[AppPasswordVar]),
                             collection |-> Str(env[CollectionVar]),
                             rkey |-> IF UnsetOrEmpty(RkeyVar)
                                      THEN Undefined ELSE Str(env[RkeyVar]),
                             filePath |-> Str(env[FilePathVar])]

\* C14 witness: all five required variables are set, to values that are not
\* all the same, and RKEY is set to the empty string.
C14_Witness ==
  /\ pc = "loaded"
  /\ ~outcome.threw
  /\ RkeyVar \in DOMAIN env /\ env[RkeyVar] = <<>>
  /\ outcome.ret.rkey = Undefined
  /\ outcome.ret.pdsUrl # outcome.ret.identifier

(***************************************************************************)
(* getRecord, createRecord, uploadRecord and the PDS                       *)
(***************************************************************************)
NsidGetRecord == "com.atproto.repo.getRecord"
NsidCreateRecord == "com.atproto.repo.createRecord"
NsidPutRecord == "com.atproto.repo.putRecord"
RkeyRequired == <<"R", "K", "E", "Y", " ", "i", "s", " ", "r", "e", "q", "u", "i", "r", "e", "d", " ", "f", "o", "r", " ", "u", "p", "d", "a", "t", "i", "n", "g", " ", "r", "e", "c", "o", "r", "d", "s">>

\* s.split(sep) and parts.pop()
RECURSIVE Split(_, _)
Split(s, sep) ==
  LET at == {i \in DOMAIN s : s[i] = sep}
  IN IF at = {} THEN <<s>>
     ELSE <<SubSeq(s, 1, Min(at) - 1)>> \o Split(SubSeq(s, Min(at) + 1, Len(s)), sep)
Pop(parts) == IF parts = <<>> THEN Undefined ELSE Str(parts[Len(parts)])
Shift(parts) == IF parts = <<>> THEN Undefined ELSE Str(parts[1])

\* The requests the three functions send.
GetRequest(cfg) ==
  [nsid |-> NsidGetRecord, repo |-> cfg.identifier, collection |-> cfg.collection,
   rkey |-> cfg.rkey, record |-> Undefined]
CreateRequest(cfg, record) ==
  [nsid |-> NsidCreateRecord, repo |-> cfg.identifier, collection |-> cfg.collection,
   rkey |-> Undefined, record |-> Obj(record)]
\* Mutant: the record is sent with its $type set to the collection.
PutRequestRetyped(cfg, record) ==
  [nsid |-> NsidPutRecord, repo |-> cfg.identifier, collection |-> cfg.collection,
   rkey |-> cfg.rkey, record |-> Obj(SetField(record, KeyType, cfg.collection))]
PutRequest(cfg, record) ==
  [nsid |-> NsidPutRecord, repo |-> cfg.identifier, collection |-> cfg.collection,
   rkey |-> cfg.rkey, record |-> Obj(record)]

\* What a call did: the requests it sent and how it ended.
Did(sent, out) == [sent |-> sent, out |-> out]

\* Mutant: getRecord without the try/catch around the request.
getRecordNoCatch(cfg, resp) ==
  IF ~Truthy(cfg.rkey) THEN Did(<<>>, Returns(JsNull))
  ELSE IF resp.ok THEN Did(<<GetRequest(cfg)>>, Returns(resp.value))
  ELSE Did(<<GetRequest(cfg)>>, Throws(resp.error))

\* getRecord(client, config) when the PDS answers resp to the request.
getRecord(cfg, resp) ==
  IF ~Truthy(cfg.rkey) THEN Did(<<>>, Returns(JsNull))
  ELSE IF resp.ok THEN Did(<<GetRequest(cfg)>>, Returns(resp.value))
  ELSE Did(<<GetRequest(cfg)>>, Returns(JsNull))

\* Mutant: the rkey is taken from the front of the URI (split("/").shift()).
createRecordShift(cfg, record, resp) ==
  IF ~resp.ok THEN Did(<<CreateRequest(cfg, record)>>, Throws(resp.error))
  ELSE LET first == Shift(Split(resp.uri, "/"))
           rkey == IF Truthy(first) THEN first ELSE Str(<<>>)
       IN Did(<<CreateRequest(cfg, record)>>,
              Returns([uri |-> Str(resp.uri), cid |-> Str(resp.cid), rkey |-> rkey]))

\* createRecord(client, config, record) when the PDS answers resp; ok()
\* throws on an error response.
createRecord(cfg, record, resp) ==
  IF ~resp.ok THEN Did(<<CreateRequest(cfg, record)>>, Throws(resp.error))
  ELSE LET last == Pop(Split(resp.uri, "/"))
           rkey == IF Truthy(last) THEN last ELSE Str(<<>>)
       IN Did(<<CreateRequest(cfg, record)>>,
              Returns([uri |-> Str(resp.uri), cid |-> Str(resp.cid), rkey |-> rkey]))

\* Mutant: uploadRecord without the test of config.rkey.
uploadRecordNoGuard(cfg, record, resp) ==
  IF ~resp.ok THEN Did(<<PutRequest(cfg, record)>>, Throws(resp.error))
  ELSE Did(<<PutRequest(cfg, record)>>,
           Returns([uri |-> Str(resp.uri), cid |-> Str(resp.cid)]))

\* uploadRecord(client, config, record) when the PDS answers resp.
uploadRecord(cfg, record, resp) ==
  IF ~Truthy(cfg.rkey) THEN Did(<<>>, Throws(RkeyRequired))
  ELSE IF ~resp.ok THEN Did(<<PutRequest(cfg, record)>>, Throws(resp.error))
  ELSE Did(<<PutRequest(cfg, record)>>,
           Returns([uri |-> Str(resp.uri), cid |-> Str(resp.cid)]))

\* The PDS: the repository is a map from record key to record; it answers a
\* request with a response and a new repository, or fails and keeps it.
AtScheme == <<"a", "t", ":", "/", "/">>
RecordNotFound == <<"R", "e", "c", "o", "r", "d", "N", "o", "t", "F", "o", "u", "n", "d">>
Unreachable == <<"f", "e", "t", "c", "h", " ", "f", "a", "i", "l", "e", "d">>
CidOne == <<"b", "a", "f", "y", "1">>
CidTwo == <<"b", "a", "f", "y", "2">>
Cids == {CidOne, CidTwo}
AtUri(repo, coll, rkey) == AtScheme \o repo \o <<"/">> \o coll \o <<"/">> \o rkey

Fails(error) == [ok |-> FALSE, error |-> error, value |-> Undefined, uri |-> <<>>, cid |-> <<>>]
Found(value) == [ok |-> TRUE, error |-> <<>>, value |-> value, uri |-> <<>>, cid |-> <<>>]
Written(uri, cid) == [ok |-> TRUE, error |-> <<>>, value |-> Undefined, uri |-> uri, cid |-> cid]
Answer(resp, st) == [resp |-> resp, store |-> st]

\* The record key (TID) the PDS generates for the next created record.
NewKey(st) == <<"3", "k", DigitChar(Cardinality(DOMAIN st))>>

\* URIs that no well-behaved PDS returns.
OddUris(req) == {<<>>, AtUri(req.repo.s, req.collection.s, <<>>), <<"/">>}

ServerSteps(st, req) ==
  {Answer(Fails(Unreachable), st)}
  \cup
  (IF req.nsid = NsidGetRecord
   THEN IF req.rkey.t = "string" /\ req.rkey.s \in DOMAIN st
        THEN {Answer(Found(st[req.rkey.s]), st)}
        ELSE {Answer(Fails(RecordNotFound), st)}
   ELSE IF req.nsid = NsidCreateRecord
   THEN {Answer(Written(AtUri(req.repo.s, req.collection.s, NewKey(st)), cid),
                (NewKey(st) :> req.record) @@ st) : cid \in Cids}
        \cup {Answer(Written(uri, CidOne), (NewKey(st) :> req.record) @@ st) :
                uri \in OddUris(req)}
   ELSE IF req.rkey.t = "string" /\ req.rkey.s # <<>>
   THEN {Answer(Written(AtUri(req.repo.s, req.collection.s, req.rkey.s), cid),
                (req.rkey.s :> req.record) @@ st) : cid \in Cids}
   ELSE {})

(***************************************************************************)
(* Calls of the library functions against a PDS                            *)
(***************************************************************************)
MaxRequests == 2

Alice == <<"a", "l", "i", "c", "e", ".", "t", "e", "s", "t">>
PdsHost == <<"h", "t", "t", "p", "s", ":", "/", "/", "p", "d", "s", ".", "t", "e", "s", "t">>
Secret == <<"p", "w">>
NotePath == <<".", "/", "n", "o", "t", "e", ".", "m", "d">>
StoredKey == <<"3", "j", "z", "f">>

\* A Config for repository Alice; rkey is a string or undefined.
ConfigFor(coll, rkey) ==
  [pdsUrl |-> Str(PdsHost), identifier |-> Str(Alice), password |-> Str(Secret),
   collection |-> Str(coll), rkey |-> rkey, filePath |-> Str(NotePath)]

Rkeys == {Undefined, Str(<<>>), Str(StoredKey)}
LibConfigs == {ConfigFor(Note, rkey) : rkey \in Rkeys}
LibRecords == {BaseRecord(Note, TextPlain, 0), JSONParse(JsonTypedFields).v.o}
Repositories == {<<>>, StoredKey :> Obj(OldEntry)}

InitLib ==
  /\ pc = "lib"
  /\ config \in LibConfigs
  /\ store \in Repositories
  /\ requests = <<>>
  /\ outcome = NoOutcome
  /\ env = <<>>
  /\ heap = <<>> /\ clock = 0
  /\ collection = <<>> /\ content = <<>> /\ existingRecord = Null
  /\ forceFields = FALSE /\ ret = Null /\ threw = FALSE
  /\ IdleCalls /\ IdleCli

\* The call, given the record argument, did what d says while the PDS took
\* step a.
LibCall(op, argument, d, a) ==
  /\ requests' = requests \o [i \in DOMAIN d.sent |-> [req |-> d.sent[i], resp |-> a.resp]]
  /\ store' = IF d.sent = <<>> THEN store ELSE a.store
  /\ outcome' = Outcome(op, d.out)
  /\ rec' = argument
  /\ UNCHANGED <<pc, heap, collection, content, existingRecord, forceFields, clock, ret, threw>>
  /\ UNCHANGED <<env, config>>
  /\ UNCHANGED <<cpc, flags, file, stdout, stderr, exitCode, steps>>
  /\ UNCHANGED callsVars

GetRecord ==
  /\ pc = "lib"
  /\ Len(requests) < MaxRequests
  /\ \E a \in ServerSteps(store, GetRequest(config)) :
       LibCall("getRecord", rec, getRecord(config, a.resp), a)

CreateRecord ==
  /\ pc = "lib"
  /\ Len(requests) < MaxRequests
  /\ \E record \in LibRecords :
       \E a \in ServerSteps(store, CreateRequest(config, record)) :
         LibCall("createRecord", record, createRecord(config, record, a.resp), a)

UploadRecord ==
  /\ pc = "lib"
  /\ Len(requests) < MaxRequests
  /\ \E record \in LibRecords :
       \E a \in ServerSteps(store, PutRequest(config, record)) :
         LibCall("uploadRecord", record, uploadRecord(config, record, a.resp), a)

NextLib == GetRecord \/ CreateRecord \/ UploadRecord
SpecLib == InitLib /\ [][NextLib]_vars

PutRequests == {i \in DOMAIN requests : requests[i].req.nsid = NsidPutRecord}
CreateRequests == {i \in DOMAIN requests : requests[i].req.nsid = NsidCreateRecord}
GetRequests == {i \in DOMAIN requests : requests[i].req.nsid = NsidGetRecord}
LastExchange == requests[Len(requests)]

\* C12: uploadRecord called with a config whose rkey is absent or empty
\* fails with "RKEY is required for updating records" and sends no putRecord
\* request.
C12_UploadNeedsRkey ==
  (outcome.op = "uploadRecord" /\ ~Truthy(config.rkey))
  => /\ outcome.threw
     /\ outcome.message = RkeyRequired
     /\ PutRequests = {}

\* C12 witness: uploadRecord was called with rkey "" after a createRecord.
C12_Witness ==
  /\ outcome.op = "uploadRecord"
  /\ config.rkey = Str(<<>>)
  /\ outcome.threw
  /\ CreateRequests # {}

\* C15: getRecord never throws: it returns null without contacting the
\* server when config.rkey is absent, null when the fetch fails for any
\* reason, and otherwise the value of the fetched record.
C15_GetRecordNeverThrows ==
  outcome.op = "getRecord"
  => /\ ~outcome.threw
     /\ IF ~Truthy(config.rkey)
        THEN outcome.ret = JsNull /\ GetRequests = {}
        ELSE /\ requests # <<>>
             /\ LastExchange.req = GetRequest(config)
             /\ outcome.ret = IF LastExchange.resp.ok
                              THEN LastExchange.resp.value
                              ELSE JsNull

\* C15 witness: the fetch of a record that is not in the repository failed.
C15_Witness ==
  /\ outcome.op = "getRecord"
  /\ Truthy(config.rkey)
  /\ requests # <<>>
  /\ LastExchange.resp.error = RecordNotFound
  /\ outcome.ret = JsNull

\* A URI of the form at://<repo>/<collection>/<rkey>.
Slashes(u) == {i \in DOMAIN u : u[i] = "/"}
WellFormedAtUri(u) ==
  /\ Len(u) > Len(AtScheme)
  /\ SubSeq(u, 1, Len(AtScheme)) = AtScheme
  /\ Cardinality(Slashes(u)) = 4
  /\ \A i \in Slashes(u) : i > Len(AtScheme) => (i < Len(u) /\ u[i - 1] # "/")

\* rkey is the last "/"-separated segment of uri.
IsLastSegment(rkey, uri) ==
  /\ Slashes(rkey) = {}
  /\ \/ uri = rkey
     \/ /\ Len(uri) > Len(rkey)
        /\ SubSeq(uri, Len(uri) - Len(rkey), Len(uri)) = <<"/">> \o rkey

\* C16: createRecord returns the uri and cid of the server's response
\* unchanged, with rkey the last "/"-separated segment of the uri: the
\* returned uri contains the returned rkey, and the rkey is non-empty for
\* every uri of the form at://<repo>/<collection>/<rkey>.
C16_CreateRecordRkey ==
  (outcome.op = "createRecord" /\ ~outcome.threw)
  => /\ requests # <<>>
     /\ outcome.ret.uri = Str(LastExchange.resp.uri)
     /\ outcome.ret.cid = Str(LastExchange.resp.cid)
     /\ outcome.ret.rkey.t = "string"
     /\ IsLastSegment(outcome.ret.rkey.s, outcome.ret.uri.s)
     /\ IsSubstring(outcome.ret.rkey.s, outcome.ret.uri.s)
     /\ WellFormedAtUri(outcome.ret.uri.s) => outcome.ret.rkey.s # <<>>

\* C16 witness: a record was created next to the stored one and its URI is
\* well formed.
C16_Witness ==
  /\ outcome.op = "createRecord" /\ ~outcome.threw
  /\ WellFormedAtUri(outcome.ret.uri.s)
  /\ outcome.ret.rkey.s \in DOMAIN store
  /\ outcome.ret.rkey.s # StoredKey
  /\ Cardinality(DOMAIN store) = 2
  /\ outcome.ret.cid = Str(CidTwo)

(***************************************************************************)
(* The command line: main()                                                *)
(***************************************************************************)
VERSION == <<"0", ".", "1", ".", "0">>
FailedToReadFile == <<"F", "a", "i", "l", "e", "d", " ", "t", "o", " ", "r", "e", "a", "d", " ", "f", "i", "l", "e", " ">>
NotFound == <<"N", "o", " ", "s", "u", "c", "h", " ", "f", "i", "l", "e", " ", "o", "r", " ", "d", "i", "r", "e", "c", "t", "o", "r", "y", " ", "(", "o", "s", " ", "e", "r", "r", "o", "r", " ", "2", ")">>
AuthFailed == <<"I", "n", "v", "a", "l", "i", "d", " ", "i", "d", "e", "n", "t", "i", "f", "i", "e", "r", " ", "o", "r", " ", "p", "a", "s", "s", "w", "o", "r", "d">>
NsidCreateSession == "com.atproto.server.createSession"

\* One line of output: the fixed text of the template literal and the value
\* interpolated into it.
Msg(label, arg) == [label |-> label, arg |-> arg]

\* n in decimal, as `${content.length}` prints it.
RECURSIVE Decimal(_)
Decimal(n) == IF n < 10 THEN <<DigitChar(n)>> ELSE Decimal(n \div 10) \o <<DigitChar(n % 10)>>

\* printHelp() and printVersion(): one console.log each.
printHelp == <<Msg("putrecord v ... USAGE: ... OPTIONS: ... CONFIGURATION: ... EXAMPLES: ...", VERSION)>>
printVersion == <<Msg("putrecord v", VERSION)>>

\* Logger.log on the messages msgs, what console.log receives.
LoggerLog(quiet, msgs) == IF ~quiet THEN msgs ELSE <<>>

\* Mutant: Logger.success prints also in quiet mode.
LoggerSuccessAlways(quiet, msgs) == msgs

\* Logger.success
LoggerSuccess(quiet, msgs) == IF ~quiet THEN msgs ELSE <<>>

\* Logger.error, what console.error receives.
LoggerError(quiet, msgs) == msgs

\* Mutant: the catch block reports the error and lets main() return.
CatchReturns(quiet, message) ==
  [err |-> LoggerError(quiet, <<Msg("Error: ", message)>>), exitCode |-> 0]

\* catch (error) { logger.error(...); Deno.exit(1); }
Catch(quiet, message) ==
  [err |-> LoggerError(quiet, <<Msg("Error: ", message)>>), exitCode |-> 1]

\* readFile(path) on a file that is readable with text, or not.
readFile(path, f) ==
  IF f.readable THEN Returns(Str(f.text))
  ELSE Throws(FailedToReadFile \o path.s \o <<":", " ">> \o NotFound)

\* Mutant: every run creates a record.
WriteModeAlwaysCreate(cfg) == "create"

\* if (config.rkey) ... else ...
WriteMode(cfg) == IF Truthy(cfg.rkey) THEN "update" ELSE "create"

\* The console.log lines after a successful uploadRecord / createRecord.
UpdatedMessages(quiet, result) ==
  LoggerSuccess(quiet, <<Msg("Record updated successfully!", <<>>)>>)
    \o LoggerLog(quiet, <<Msg("  URI: ", result.uri.s), Msg("  CID: ", result.cid.s)>>)
CreatedMessages(quiet, result) ==
  LoggerSuccess(quiet, <<Msg("New record created successfully!", <<>>)>>)
    \o LoggerLog(quiet, <<Msg("  URI: ", result.uri.s),
                          Msg("  CID: ", result.cid.s),
                          Msg("  RKEY: ", result.rkey.s),
                          Msg("Save this RKEY for future updates: ", result.rkey.s),
                          Msg("   Add to your .env file: RKEY=", result.rkey.s)>>)

\* The inputs of a run.
Flags == [quiet : BOOLEAN, help : BOOLEAN, version : BOOLEAN]
FullEnv(coll) ==
  (PdsUrlVar :> PdsHost) @@ (IdentifierVar :> Alice) @@ (AppPasswordVar :> Secret)
    @@ (CollectionVar :> coll) @@ (FilePathVar :> NotePath)
WithVar(e, key, value) == (key :> value) @@ e
WithoutVar(e, key) == [k \in DOMAIN e \ {key} |-> e[k]]
CliEnvironments ==
  UNION {{FullEnv(coll),
          WithVar(FullEnv(coll), RkeyVar, <<>>),
          WithVar(FullEnv(coll), RkeyVar, StoredKey),
          WithoutVar(WithVar(FullEnv(coll), RkeyVar, StoredKey), AppPasswordVar),
          WithVar(FullEnv(coll), FilePathVar, <<>>)} : coll \in {WhiteWind, Note}}
Files ==
  {[readable |-> FALSE, text |-> <<>>]}
  \cup {[readable |-> TRUE, text |-> t] : t \in {MdTitleBody, TextPlain, JsonTypedBlog}}
StoredBlog == SetField(WithFields(Str(Old), Str(Author)), KeyTheme, Str(Dark))
CliRepositories == {<<>>, StoredKey :> Obj(StoredBlog)}

Step(name, ok) == [name |-> name, ok |-> ok]

InitCli ==
  /\ pc = "cli"
  /\ cpc = "start"
  /\ flags \in Flags
  /\ env \in CliEnvironments
  /\ file \in Files
  /\ store \in CliRepositories
  /\ config = <<>> /\ requests = <<>> /\ outcome = NoOutcome
  /\ rec = Null /\ stdout = <<>> /\ stderr = <<>> /\ exitCode = -1 /\ steps = <<>>
  /\ heap = <<>> /\ clock = 0
  /\ collection = <<>> /\ content = <<>> /\ existingRecord = Null
  /\ forceFields = FALSE /\ ret = Null /\ threw = FALSE
  /\ IdleCalls

\* The step ended by throwing: control goes to the catch block.
Caught(name, out, message) ==
  LET c == Catch(flags.quiet, message)
  IN /\ stdout' = stdout \o out
     /\ stderr' = stderr \o c.err
     /\ exitCode' = c.exitCode
     /\ steps' = Append(steps, Step(name, FALSE))
     /\ cpc' = "exit"

\* main() from its start to `await readFile(config.filePath)`.
MainStart ==
  /\ cpc = "start"
  /\ IF flags.help
     THEN /\ stdout' = stdout \o printHelp
          /\ exitCode' = 0
          /\ cpc' = "exit"
          /\ UNCHANGED <<stderr, steps, config, outcome>>
     ELSE IF flags.version
     THEN /\ stdout' = stdout \o printVersion
          /\ exitCode' = 0
          /\ cpc' = "exit"
          /\ UNCHANGED <<stderr, steps, config, outcome>>
     ELSE LET c == loadConfig(env)
              loading == LoggerLog(flags.quiet, <<Msg("Loading configuration...", <<>>)>>)
          IN /\ outcome' = Outcome("loadConfig", c)
             /\ IF c.threw
                THEN /\ Caught("loadConfig", loading, c.message)
                     /\ UNCHANGED config
                ELSE /\ config' = c.ret
                     /\ stdout' = stdout \o loading
                          \o LoggerLog(flags.quiet, <<Msg("Reading file: ", c.ret.filePath.s)>>)
                     /\ steps' = Append(steps, Step("loadConfig", TRUE))
                     /\ cpc' = "read"
                     /\ UNCHANGED <<stderr, exitCode>>
  /\ UNCHANGED <<flags, file, rec, env, store, requests>>
  /\ UNCHANGED <<buildVars, callsVars>>

\* Mutant: a failed readFile is reported and main() goes on to log in with
\* empty content.
ReadFileGoesOn ==
  /\ cpc = "read"
  /\ LET r == readFile(config.filePath, file)
     IN /\ outcome' = Outcome("readFile", r)
        /\ content' = IF r.threw THEN <<>> ELSE r.ret.s
        /\ stdout' = stdout
        /\ stderr' = IF r.threw
                     THEN stderr \o LoggerError(flags.quiet, <<Msg("Error: ", r.message)>>)
                     ELSE stderr
        /\ steps' = Append(steps, Step("readFile", ~r.threw))
        /\ cpc' = "login"
        /\ UNCHANGED exitCode
  /\ UNCHANGED <<flags, file, rec, env, config, store, requests>>
  /\ UNCHANGED <<pc, heap, collection, existingRecord, forceFields, clock, ret, threw>>
  /\ UNCHANGED callsVars

\* readFile settles; on success main() goes on to `await manager.login(...)`.
ReadFile ==
  /\ cpc = "read"
  /\ LET r == readFile(config.filePath, file)
     IN /\ outcome' = Outcome("readFile", r)
        /\ IF r.threw
           THEN /\ Caught("readFile", <<>>, r.message)
                /\ UNCHANGED content
           ELSE /\ content' = r.ret.s
                /\ stdout' = stdout
                     \o LoggerLog(flags.quiet,
                                  <<Msg("File read (characters): ", Decimal(Len(r.ret.s))),
                                    Msg("Authenticating as: ", config.identifier.s)>>)
                /\ steps' = Append(steps, Step("readFile", TRUE))
                /\ cpc' = "login"
                /\ UNCHANGED <<stderr, exitCode>>
  /\ UNCHANGED <<flags, file, rec, env, config, store, requests>>
  /\ UNCHANGED <<pc, heap, collection, existingRecord, forceFields, clock, ret, threw>>
  /\ UNCHANGED callsVars

\* The request manager.login sends.
LoginRequest(cfg) ==
  [nsid |-> NsidCreateSession, repo |-> cfg.identifier, collection |-> Undefined,
   rkey |-> Undefined, record |-> Undefined]

\* manager.login settles; on success main() builds the record and goes on to
\* `await uploadRecord(...)` or `await createRecord(...)`.
Login ==
  /\ cpc = "login"
  /\ \E resp \in {Fails(AuthFailed), Fails(Unreachable), Found(Undefined)} :
       /\ requests' = Append(requests, [req |-> LoginRequest(config), resp |-> resp])
       /\ outcome' = Outcome("login", IF resp.ok THEN Returns(Undefined) ELSE Throws(resp.error))
       /\ IF ~resp.ok
          THEN /\ Caught("login", <<>>, resp.error)
               /\ UNCHANGED <<heap, rec>>
          ELSE LET b == buildRecord(heap, config.collection.s, content, Null, FALSE, clock)
               IN /\ heap' = b.heap
                  /\ rec' = b.ret
                  /\ stdout' = stdout
                       \o LoggerLog(flags.quiet,
                                    <<Msg("Authentication successful", <<>>),
                                      Msg("Building record from file content...", <<>>)>>)
                       \o LoggerLog(flags.quiet,
                                    IF WriteMode(config) = "update"
                                    THEN <<Msg("Updating existing record: ",
                                               config.collection.s \o <<"/">> \o config.rkey.s)>>
                                    ELSE <<Msg("Creating new record in ", config.collection.s)>>)
                  /\ steps' = Append(steps, Step("login", TRUE))
                  /\ cpc' = "write"
                  /\ UNCHANGED <<stderr, exitCode>>
  /\ UNCHANGED <<flags, file, env, config, store>>
  /\ UNCHANGED <<pc, collection, content, existingRecord, forceFields, clock, ret, threw>>
  /\ UNCHANGED callsVars

\* uploadRecord or createRecord settles and main() runs to its end.
Write ==
  /\ cpc = "write"
  /\ LET update == WriteMode(config) = "update"
         request == IF update THEN PutRequest(config, heap[rec])
                    ELSE CreateRequest(config, heap[rec])
     IN \E a \in ServerSteps(store, request) :
          LET d == IF update THEN uploadRecord(config, heap[rec], a.resp)
                   ELSE createRecord(config, heap[rec], a.resp)
              name == IF update THEN "uploadRecord" ELSE "createRecord"
          IN /\ requests' = requests \o [i \in DOMAIN d.sent |-> [req |-> d.sent[i], resp |-> a.resp]]
             /\ store' = IF d.sent = <<>> THEN store ELSE a.store
             /\ outcome' = Outcome(name, d.out)
             /\ IF d.out.threw
                THEN Caught(name, <<>>, d.out.message)
                ELSE /\ stdout' = stdout
                          \o (IF update THEN UpdatedMessages(flags.quiet, d.out.ret)
                              ELSE CreatedMessages(flags.quiet, d.out.ret))
                     /\ steps' = Append(steps, Step(name, TRUE))
                     /\ exitCode' = 0
                     /\ cpc' = "exit"
                     /\ UNCHANGED stderr
  /\ UNCHANGED <<flags, file, rec, env, config>>
  /\ UNCHANGED <<buildVars, callsVars>>

NextCli == MainStart \/ ReadFile \/ Login \/ Write
SpecCli == InitCli /\ [][NextCli]_vars

\* Vocabulary for runs of the command line.
Exited == cpc = "exit"
InfoRun == flags.help \/ flags.version
StepsNamed(names) == {i \in DOMAIN steps : steps[i].name \in names}
FailedSteps == {i \in DOMAIN steps : ~steps[i].ok}
ReachedWrite == StepsNamed({"uploadRecord", "createRecord"}) # {}
Created == \E i \in DOMAIN steps : steps[i] = Step("createRecord", TRUE)
Updated == \E i \in DOMAIN steps : steps[i] = Step("uploadRecord", TRUE)
RkeySet == RkeyVar \in DOMAIN env /\ env[RkeyVar] # <<>>
RkeyReported ==
  \E i \in DOMAIN stdout :
    stdout[i].label = "  RKEY: " /\ stdout[i].arg = outcome.ret.rkey.s

C17_UpdateKeepsCustomTitle ==
  [][(/\ cpc = "write" /\ cpc' = "exit" /\ exitCode' = 0
      /\ WriteMode(config) = "update"
      /\ config.collection = Str(WhiteWind)
      /\ config.rkey.s \in DOMAIN store
      /\ Truthy(GetField(store[config.rkey.s].o, KeyTitle)))
     => (/\ GetField(store'[config.rkey.s].o, KeyTitle)
              = GetField(store[config.rkey.s].o, KeyTitle)
         /\ GetField(store'[config.rkey.s].o, KeyContent) = Str(file.text))]_vars

\* C18: the run exits with code 1 after printing an error whenever a step
\* fails (loadConfig, readFile, login, createRecord or uploadRecord), and
\* exits with code 0 for --help and --version without loading the
\* configuration, reading the file or contacting the server.
C18_ExitCodes ==
  /\ FailedSteps # {}
     => /\ Exited /\ exitCode = 1
        /\ outcome.threw
        /\ stderr = <<Msg("Error: ", outcome.message)>>
  /\ (Exited /\ InfoRun)
     => /\ exitCode = 0
        /\ steps = <<>> /\ outcome.op = "none"
        /\ requests = <<>> /\ stderr = <<>>
  /\ (Exited /\ exitCode = 1) => FailedSteps # {}

\* C18 witness: the run loaded the configuration, read the file and logged
\* in, and the createRecord failed.
C18_Witness ==
  /\ Exited /\ exitCode = 1
  /\ Len(steps) = 4
  /\ steps[4] = Step("createRecord", FALSE)
  /\ stderr # <<>>

C23_TitleCandidate ==
  Extracted = IF HeadingLines(content) # {}
              THEN Str(FirstHeadingText(content))
              ELSE Undefined

\* The title or visibility of existingRecord is copied to the result.
Preserves(key) == HasExisting /\ ~forceFields /\ Truthy(ExistingField(key))

BlogKeys == {KeyType, KeyContent, KeyCreatedAt, KeyVisibility, KeyTitle}

\* C27: on the blog path the keys of the result are among $type, content,
\* createdAt, visibility and title: no other field of existingRecord is
\* carried over, createdAt is the time of the call and content is the new
\* raw content.
C27_BlogKeys ==
  (Done /\ OnBlogPath)
  => (/\ Returned
      /\ DOMAIN Result \subseteq BlogKeys
      /\ FreshCreatedAt
      /\ ResultField(KeyCreatedAt) # Str(OldStamp)
      /\ ResultField(KeyContent) = Str(content))

\* C27 witness: the existing record has a theme, an older createdAt and other
\* content, and its title and visibility were kept.
C27_Witness ==
  /\ Returned /\ OnBlogPath /\ HasExisting
  /\ KeyTheme \in DOMAIN heap[existingRecord]
  /\ ExistingField(KeyCreatedAt) = Str(OldStamp)
  /\ ExistingField(KeyContent) # Str(content)
  /\ ResultField(KeyTitle) = Str(Old)
  /\ ResultField(KeyVisibility) = Str(Author)

\* Lines that hold "#" and whitespace only.
BlankHeadingLines(s) ==
  {i \in 1..Len(s) :
     /\ AtLineStart(s, i)
     /\ LET line == LineAt(s, i)
        IN /\ Len(line) >= 2
           /\ line[1] = "#"
           /\ line[2] \in WhiteSpace
           /\ Trim(Tail(line)) = <<>>}

\* C30: on the blog path visibility is truthy, and is "public" or the
\* visibility of existingRecord; a title key, when present, holds a truthy
\* value; a heading whose text is only whitespace yields no title.
C30_BlogFieldsTruthy ==
  (Done /\ OnBlogPath)
  => (/\ Returned
      /\ Truthy(ResultField(KeyVisibility))
      /\ \/ ResultField(KeyVisibility) = Str(Public)
         \/ HasExisting /\ ResultField(KeyVisibility) = ExistingField(KeyVisibility)
      /\ KeyTitle \in DOMAIN Result => Truthy(ResultField(KeyTitle))
      /\ (BlankHeadingLines(content) # {} /\ ~Preserves(KeyTitle))
         => IF HeadingLines(content) = {}
            THEN KeyTitle \notin DOMAIN Result
            ELSE ResultField(KeyTitle) = Str(FirstHeadingText(content)))

(***************************************************************************)
(* Concurrent calls of buildRecord                                         *)
(***************************************************************************)
MaxCallers == 2

\* The arguments of the callers; reference 1 is the stored blog entry.
CallerArguments ==
  {[collection |-> WhiteWind, content |-> MdTitleBody, existingRecord |-> 1, forceFields |-> FALSE],
   [collection |-> WhiteWind, content |-> MdTitleBody, existingRecord |-> 1, forceFields |-> TRUE],
   [collection |-> WhiteWind, content |-> TextPlain, existingRecord |-> Null, forceFields |-> FALSE],
   [collection |-> Note, content |-> MdTitleBody, existingRecord |-> 1, forceFields |-> FALSE],
   [collection |-> WhiteWind, content |-> JsonTyped, existingRecord |-> 1, forceFields |-> FALSE]}

\* A caller before its call: its arguments, its position in buildRecord and
\* its local `record`.
Caller(a) ==
  [collection |-> a.collection, content |-> a.content,
   existingRecord |-> a.existingRecord, forceFields |-> a.forceFields,
   at |-> "start", record |-> Null, threw |-> FALSE]

\* Mutant: `record` is one object shared by all calls.
SharedRecordRef(h) == 2

\* The reference of the object a record literal creates.
NewRecordRef(h) == Len(h) + 1

\* Heap h with obj at reference ref.
Put(h, ref, obj) == IF ref = Len(h) + 1 THEN Append(h, obj) ELSE [h EXCEPT ![ref] = obj]

InitConcurrent ==
  /\ pc = "concurrent"
  /\ heap = <<StoredBlog>>
  /\ clock = 0
  /\ calls \in [1..MaxCallers -> {Caller(a) : a \in CallerArguments}]
  /\ collection = <<>> /\ content = <<>> /\ existingRecord = Null
  /\ forceFields = FALSE /\ ret = Null /\ threw = FALSE
  /\ IdleLib /\ IdleCli

\* Caller i moves to position at with local record ref on heap h; time passes
\* between the record literals.
Advance(i, at, ref, h) ==
  /\ calls' = [calls EXCEPT ![i].at = at, ![i].record = ref]
  /\ heap' = h
  /\ clock' = IF calls[i].at = "parsed" THEN clock + 1 ELSE clock
  /\ UNCHANGED <<pc, collection, content, existingRecord, forceFields, ret, threw>>
  /\ UNCHANGED <<libVars, cliVars>>

\* The try block of caller i.
TryStep(i) ==
  /\ pc = "concurrent"
  /\ calls[i].at = "start"
  /\ LET t == TryBlock(calls[i].content)
     IN IF t = "return"
        THEN Advance(i, "done", NewRecordRef(heap),
                     Put(heap, NewRecordRef(heap), JSONParse(calls[i].content).v.o))
        ELSE Advance(i, "parsed", Null, heap)

\* const record = { $type, content, createdAt } of caller i.
RecordStep(i) ==
  /\ pc = "concurrent"
  /\ calls[i].at = "parsed"
  /\ Advance(i, IF calls[i].collection = WhiteWind THEN "record" ELSE "done",
             NewRecordRef(heap),
             Put(heap, NewRecordRef(heap),
                 BaseRecord(calls[i].collection, calls[i].content, clock)))

\* "Handle visibility field" of caller i.
VisibilityStep(i) ==
  /\ pc = "concurrent"
  /\ calls[i].at = "record"
  /\ Advance(i, "visibility", calls[i].record,
             [heap EXCEPT ![calls[i].record] =
                HandleVisibility(heap[calls[i].record], heap,
                                 calls[i].existingRecord, calls[i].forceFields)])

\* "Handle title field" and `return record` of caller i.
TitleStep(i) ==
  /\ pc = "concurrent"
  /\ calls[i].at = "visibility"
  /\ Advance(i, "done", calls[i].record,
             [heap EXCEPT ![calls[i].record] =
                HandleTitle(heap[calls[i].record], heap,
                            calls[i].existingRecord, calls[i].forceFields,
                            extractMarkdownTitle(calls[i].content))])

NextConcurrent ==
  \E i \in 1..MaxCallers : TryStep(i) \/ RecordStep(i) \/ VisibilityStep(i) \/ TitleStep(i)
SpecConcurrent == InitConcurrent /\ [][NextConcurrent]_vars

\* The record call c returns when it runs alone.
Alone(c) ==
  LET r == buildRecord(<<StoredBlog>>, c.collection, c.content,
                       c.existingRecord, c.forceFields, 0)
  IN r.heap[r.ret]

\* C24: concurrent calls of buildRecord share no mutable state: under every
\* interleaving each call returns the record it returns when run alone, apart
\* from createdAt.
C24_ConcurrentCalls ==
  \A i \in DOMAIN calls :
    calls[i].at = "done"
    => /\ ~calls[i].threw
       /\ calls[i].record \in DOMAIN heap
       /\ WithoutCreatedAt(heap[calls[i].record]) = WithoutCreatedAt(Alone(calls[i]))

\* C24 witness: caller 2 made its record after caller 1 made its own and has
\* returned while caller 1 is still between its visibility and its title;
\* both build blog records from the same stored entry, caller 2 forced.
C24_Witness ==
  /\ calls[1].at = "visibility" /\ calls[2].at = "done"
  /\ calls[1].record < calls[2].record
  /\ calls[1].existingRecord = 1 /\ calls[2].existingRecord = 1
  /\ calls[1].collection = WhiteWind /\ calls[2].collection = WhiteWind
  /\ ~calls[1].forceFields /\ calls[2].forceFields
  /\ heap[calls[1].record][KeyVisibility] = Str(Author)
  /\ heap[calls[2].record][KeyVisibility] = Str(Public)

(***************************************************************************)
(* The update workflow: getRecord, buildRecord, uploadRecord               *)
(***************************************************************************)
MaxUpdates == 2

UpdateConfig == ConfigFor(WhiteWind, Str(StoredKey))
UpdateContents == {MdTitleBody, MdTwoHeadings, TextPlain}
UpdateRepositories ==
  {<<>>}
  \cup {StoredKey :> Obj(r) :
          r \in {StoredBlog,
                 OldEntry,
                 WithFields(Str(Old), Str(<<>>)),
                 WithFields(Str(<<>>), Str(Author))}}

InitUpdate ==
  /\ pc = "fetch"
  /\ config = UpdateConfig
  /\ store \in UpdateRepositories
  /\ requests = <<>> /\ outcome = NoOutcome /\ env = <<>>
  /\ heap = <<>> /\ clock = 0
  /\ collection = WhiteWind /\ content = <<>> /\ existingRecord = Null
  /\ forceFields = FALSE /\ ret = Null /\ threw = FALSE
  /\ IdleCalls /\ IdleCli

\* const existingRecord = await getRecord(client, config);
FetchExisting ==
  /\ pc = "fetch"
  /\ Cardinality(PutRequests) < MaxUpdates
  /\ \E a \in ServerSteps(store, GetRequest(config)) :
       LET d == getRecord(config, a.resp)
       IN /\ requests' = requests \o [i \in DOMAIN d.sent |-> [req |-> d.sent[i], resp |-> a.resp]]
          /\ outcome' = Outcome("getRecord", d.out)
          /\ IF d.out.ret = JsNull
             THEN heap' = <<>> /\ existingRecord' = Null
             ELSE heap' = <<d.out.ret.o>> /\ existingRecord' = 1
  /\ pc' = "build"
  /\ ret' = Null
  /\ UNCHANGED <<collection, content, forceFields, clock, threw>>
  /\ UNCHANGED <<env, config, store>>
  /\ UNCHANGED <<callsVars, cliVars>>

\* const record = buildRecord(config.collection, content, existingRecord, false);
BuildUpdate ==
  /\ pc = "build"
  /\ \E c \in UpdateContents :
       LET b == buildRecord(heap, config.collection.s, c, existingRecord, forceFields, clock)
       IN /\ content' = c
          /\ heap' = b.heap
          /\ ret' = b.ret
          /\ threw' = b.threw
  /\ pc' = "upload"
  /\ clock' = clock + 1
  /\ UNCHANGED <<collection, existingRecord, forceFields>>
  /\ UNCHANGED libVars
  /\ UNCHANGED <<callsVars, cliVars>>

\* await uploadRecord(client, config, record);
UploadUpdate ==
  /\ pc = "upload"
  /\ \E a \in ServerSteps(store, PutRequest(config, heap[ret])) :
       LET d == uploadRecord(config, heap[ret], a.resp)
       IN /\ requests' = requests \o [i \in DOMAIN d.sent |-> [req |-> d.sent[i], resp |-> a.resp]]
          /\ store' = IF d.sent = <<>> THEN store ELSE a.store
          /\ outcome' = Outcome("uploadRecord", d.out)
  /\ pc' = "fetch"
  /\ UNCHANGED <<heap, collection, content, existingRecord, forceFields, clock, ret, threw>>
  /\ UNCHANGED <<env, config>>
  /\ UNCHANGED <<callsVars, cliVars>>

NextUpdate == FetchExisting \/ BuildUpdate \/ UploadUpdate
SpecUpdate == InitUpdate /\ [][NextUpdate]_vars

\* Vocabulary for the update workflow.
AllFetchesOk == \A i \in GetRequests : requests[i].resp.ok
UpdatesDone == {i \in PutRequests : requests[i].resp.ok}
StoredField(key) == GetField(store[StoredKey].o, key)
\* The record the first fetch returned: the one stored before the first update.
FirstFetched == requests[1].resp.value.o

\* C25: with every fetch succeeding and no other writer, after any number of
\* successive non-forced updates of a blog entry with non-pass-through
\* contents the stored title and visibility equal the values stored before
\* the first update, provided those were truthy.
C25_UpdatesKeepTitleAndVisibility ==
  (requests # <<>> /\ AllFetchesOk)
  => /\ Truthy(GetField(FirstFetched, KeyTitle))
        => StoredField(KeyTitle) = GetField(FirstFetched, KeyTitle)
     /\ Truthy(GetField(FirstFetched, KeyVisibility))
        => StoredField(KeyVisibility) = GetField(FirstFetched, KeyVisibility)

\* C25 witness: two updates were made with different contents, the second
\* with a heading, and the stored entry still has its title and visibility.
C25_Witness ==
  /\ AllFetchesOk
  /\ Cardinality(UpdatesDone) = 2
  /\ \E i, j \in UpdatesDone :
       requests[i].req.record.o[KeyContent] # requests[j].req.record.o[KeyContent]
  /\ StoredField(KeyContent) = Str(MdTitleBody)
  /\ StoredField(KeyTitle) = Str(Old)
  /\ StoredField(KeyVisibility) = Str(Author)

\* C26: a non-forced update of a blog entry made through getRecord,
\* buildRecord and uploadRecord never replaces a truthy stored visibility by
\* "public", whatever the outcome of the fetch inside getRecord.
C26_UpdateKeepsVisibility ==
  [][(/\ pc = "upload"
      /\ StoredKey \in DOMAIN store
      /\ Truthy(StoredField(KeyVisibility))
      /\ StoredField(KeyVisibility) # Str(Public))
     => GetField(store'[StoredKey].o, KeyVisibility) # Str(Public)]_vars

(***************************************************************************)
(* What createRecord and uploadRecord send                                 *)
(***************************************************************************)
\* C28: createRecord and uploadRecord send the record argument unmodified,
\* with repo = config.identifier and collection = config.collection (and
\* rkey = config.rkey for uploadRecord), also when the record's own $type
\* differs from config.collection; config and the record stay as they were.
C28_RecordSentUnmodified ==
  /\ (pc = "lib" /\ outcome.op = "createRecord")
     => /\ LastExchange.req.nsid = NsidCreateRecord
        /\ LastExchange.req.repo = config.identifier
        /\ LastExchange.req.collection = config.collection
        /\ LastExchange.req.record = Obj(rec)
        /\ rec \in LibRecords
  /\ (pc = "lib" /\ outcome.op = "uploadRecord" /\ Truthy(config.rkey))
     => /\ LastExchange.req.nsid = NsidPutRecord
        /\ LastExchange.req.repo = config.identifier
        /\ LastExchange.req.collection = config.collection
        /\ LastExchange.req.rkey = config.rkey
        /\ LastExchange.req.record = Obj(rec)
        /\ rec \in LibRecords
  /\ pc = "lib" => config \in LibConfigs

\* C28 witness: uploadRecord sent a record whose $type is not the collection
\* of the config, and the PDS stored it under the rkey.
C28_Witness ==
  /\ pc = "lib"
  /\ outcome.op = "uploadRecord" /\ ~outcome.threw
  /\ rec[KeyType] # config.collection
  /\ store[config.rkey.s] = Obj(rec)
  /\ CreateRequests # {}

(***************************************************************************)
(* The order of the steps of main()                                        *)
(***************************************************************************)
LoginRequests == {i \in DOMAIN requests : requests[i].req.nsid = NsidCreateSession}
WriteRequests == PutRequests \cup CreateRequests
StepOk(i, names) == i \in DOMAIN steps /\ steps[i].name \in names /\ steps[i].ok

\* C29: in every run the steps occur in the order load configuration, read
\* file, log in, build record, write: login is attempted only after loading
\* and reading succeeded, a write request is issued only after login
\* succeeded, at most one write request is issued, and after a failing step
\* no later step runs.
C29_StepOrder ==
  /\ \A i \in DOMAIN steps :
       /\ steps[i].name \in (CASE i = 1 -> {"loadConfig"}
                               [] i = 2 -> {"readFile"}
                               [] i = 3 -> {"login"}
                               [] OTHER -> {"uploadRecord", "createRecord"})
       /\ i < Len(steps) => steps[i].ok
  /\ Len(steps) <= 4
  /\ LoginRequests # {}
     => StepOk(1, {"loadConfig"}) /\ StepOk(2, {"readFile"})
  /\ Cardinality(LoginRequests) <= 1
  /\ (cpc # "start" /\ cpc # "idle" /\ rec # Null) => StepOk(3, {"login"})
  /\ WriteRequests # {}
     => /\ StepOk(3, {"login"})
        /\ \A i \in LoginRequests : requests[i].resp.ok
        /\ \A i \in LoginRequests, j \in WriteRequests : i < j
        /\ rec # Null
  /\ Cardinality(WriteRequests) <= 1
  /\ FailedSteps # {} => Exited

\* C29 witness: the configuration was loaded and the file read, the login
\* failed, and the run ended without building or writing a record.
C29_Witness ==
  /\ Exited
  /\ Len(steps) = 3
  /\ steps[3] = Step("login", FALSE)
  /\ LoginRequests # {}
  /\ WriteRequests = {}
  /\ rec = Null

(***************************************************************************)
(* The init command.  Its implementation is not among the sources; it is   *)
(* modelled from tests/init.test.ts, which runs `main.ts init [--force]    *)
(* [--quiet]` in a directory and inspects the exit code, the output and    *)
(* the files, and from the templates of src/templates.ts.                  *)
(***************************************************************************)
MaxRuns == 2

WORKFLOW_TEMPLATE ==
  "# Example GitHub Actions workflow for automatic PDS uploads\n# Copy this file to .github/workflows/ in your repository to use it\nname: Upload to PDS\n\non:\n  push:\n    branches:\n      - main\n  workflow_dispatch:\n\njobs:\n  upload:\n    runs-on: ubuntu-latest\n    steps:\n      - name: Checkout code\n        uses: actions/checkout@v4\n\n      - name: Setup Deno\n        uses: denoland/setup-deno@v2\n        with:\n          cache: true\n          deno-version: v2.x\n\n      - name: Upload to PDS\n        env:\n          PDS_URL: ${{ secrets.PDS_URL }}\n          IDENTIFIER: ${{ secrets.IDENTIFIER }}\n          APP_PASSWORD: ${{ secrets.APP_PASSWORD }}\n          COLLECTION: ${{ secrets.COLLECTION }}\n          RKEY: ${{ secrets.RKEY }}\n          FILE_PATH: ${{ secrets.FILE_PATH }}\n        run: deno run -A jsr:@fry69/putrecord --quiet\n"
ENV_EXAMPLE_TEMPLATE ==
  "# PDS Configuration\nPDS_URL=https://bsky.social\n\n# Authentication\nIDENTIFIER=your-handle.bsky.social\nAPP_PASSWORD=your-app-password-here\n\n# Record Configuration\n# Use any valid AT Protocol collection (NSID format)\nCOLLECTION=com.example.note\n\n# RKEY (optional)\n# - Omit or comment out for CREATE mode (first upload)\n# - Set for UPDATE mode (subsequent uploads)\n# RKEY=your-generated-rkey-here\n\n# File Path\n# Can be text, JSON, or any content supported by your collection\nFILE_PATH=./content/note.txt\n"

GithubDir == ".github"
WorkflowDir == ".github/workflows"
WorkflowPath == ".github/workflows/putrecord.yaml"
EnvExamplePath == ".env.example"
ModifiedContent == "modified content"

\* A project directory: the directories that exist and the content of the
\* files that exist.
Directory(dirs, files) == [dirs |-> dirs, files |-> files]

\* Deno.mkdir(".github/workflows", {recursive: true}).
mkdirRecursive(fs) == Directory(fs.dirs \cup {GithubDir, WorkflowDir}, fs.files)

\* Deno.writeTextFile(path, text).
writeTextFile(fs, path, text) ==
  Directory(fs.dirs, [p \in DOMAIN fs.files \cup {path} |->
                        IF p = path THEN text ELSE fs.files[p]])

\* Mutant: a file is written whether or not it exists.
initFileAlwaysWrites(fs, path, template, force) ==
  [fs |-> writeTextFile(fs, path, template),
   out |-> <<<<"Created: ", path>>>>]

\* Mutant: an existing file is skipped even with --force.
initFileNeverOverwrites(fs, path, template, force) ==
  IF path \in DOMAIN fs.files
  THEN [fs |-> fs,
        out |-> << <<"Skipped: ", path, " (already exists)">>,
                   <<"Use --force to overwrite">> >>]
  ELSE [fs |-> writeTextFile(fs, path, template),
        out |-> <<<<"Created: ", path>>>>]

\* One file of init: an existing file is skipped unless --force is given,
\* otherwise the template is written.
initFile(fs, path, template, force) ==
  IF path \in DOMAIN fs.files /\ ~force
  THEN [fs |-> fs,
        out |-> << <<"Skipped: ", path, " (already exists)">>,
                   <<"Use --force to overwrite">> >>]
  ELSE [fs |-> writeTextFile(fs, path, template),
        out |-> IF path \in DOMAIN fs.files
                THEN <<<<"Created: ", path, " (overwritten)">>>>
                ELSE <<<<"Created: ", path>>>>]

\* What init may report about the workflow directory: "Created directory"
\* when it was absent, either message when it existed.
DirectoryMessages(fs) ==
  IF WorkflowDir \in fs.dirs
  THEN {<<"Created directory: ", WorkflowDir>>, <<"Directory exists: ", WorkflowDir>>}
  ELSE {<<"Created directory: ", WorkflowDir>>}

\* init: make the workflow directory, then the workflow file, then
\* .env.example; the messages are suppressed by --quiet.
init(fs, force, quiet, dirMessage) ==
  LET made     == mkdirRecursive(fs)
      workflow == initFile(made, WorkflowPath, WORKFLOW_TEMPLATE, force)
      example  == initFile(workflow.fs, EnvExamplePath, ENV_EXAMPLE_TEMPLATE, force)
  IN [fs |-> example.fs,
      out |-> IF quiet THEN <<>>
              ELSE <<<<"Initializing putrecord project">>, dirMessage>>
                   \o workflow.out \o example.out
                   \o << <<"Initialization complete!">>, <<"Next steps:">>,
                         <<"Copy .env.example to .env">>,
                         <<"Set GitHub repository secrets">> >>,
      code |-> 0]

FileContents == {WORKFLOW_TEMPLATE, ENV_EXAMPLE_TEMPLATE, ModifiedContent}

\* The project directories init may be run in.
Directories ==
  {fs \in [dirs : {{}, {GithubDir}, {GithubDir, WorkflowDir}},
           files : UNION {[paths -> FileContents] :
                            paths \in SUBSET {WorkflowPath, EnvExamplePath}}] :
     WorkflowPath \in DOMAIN fs.files => WorkflowDir \in fs.dirs}

NoFlags == [force |-> FALSE, quiet |-> FALSE]

InitInit ==
  /\ pc = "init"
  /\ store \in Directories
  /\ flags = NoFlags
  /\ stdout = <<>>
  /\ exitCode = -1
  /\ clock = 0
  /\ heap = <<>> /\ collection = <<>> /\ content = <<>> /\ existingRecord = Null
  /\ forceFields = FALSE /\ ret = Null /\ threw = FALSE
  /\ IdleCalls
  /\ env = <<>> /\ config = <<>> /\ requests = <<>> /\ outcome = NoOutcome
  /\ cpc = "idle" /\ file = <<>> /\ rec = <<>> /\ stderr = <<>> /\ steps = <<>>

InitFrame ==
  /\ UNCHANGED <<pc, heap, collection, content, existingRecord, forceFields, ret, threw>>
  /\ UNCHANGED callsVars
  /\ UNCHANGED <<env, config, requests, outcome>>
  /\ UNCHANGED <<cpc, file, rec, stderr, steps>>

\* One run of `putrecord init [--force] [--quiet]`.
RunInit ==
  /\ pc = "init"
  /\ clock < MaxRuns
  /\ \E force \in BOOLEAN, quiet \in BOOLEAN, dirMessage \in DirectoryMessages(store) :
       LET r == init(store, force, quiet, dirMessage)
       IN /\ store' = r.fs
          /\ stdout' = r.out
          /\ exitCode' = r.code
          /\ flags' = [force |-> force, quiet |-> quiet]
  /\ clock' = clock + 1
  /\ InitFrame

\* Between runs the user overwrites one of the files, as the tests do with
\* Deno.mkdir(..., {recursive: true}) and Deno.writeTextFile.
EditFile ==
  /\ pc = "init"
  /\ \E path \in {WorkflowPath, EnvExamplePath} :
       store' = writeTextFile(IF path = WorkflowPath THEN mkdirRecursive(store) ELSE store,
                              path, ModifiedContent)
  /\ store' # store
  /\ UNCHANGED <<flags, stdout, exitCode, clock>>
  /\ InitFrame

NextInit == RunInit \/ EditFile

SpecInit == InitInit /\ [][NextInit]_vars

InitRan == clock' = clock + 1
Reported(message) == \E i \in DOMAIN stdout : stdout[i] = message
Templates == (WorkflowPath :> WORKFLOW_TEMPLATE) @@ (EnvExamplePath :> ENV_EXAMPLE_TEMPLATE)

\* C21: a run of init without --force leaves every existing file with the
\* content it had and exits with code 0; every run leaves both files in
\* place, so a further run without --force changes no file at all.
C21_InitKeepsExistingFiles ==
  [][InitRan =>
       /\ exitCode' = 0
       /\ DOMAIN store'.files = {WorkflowPath, EnvExamplePath}
       /\ ~flags'.force
          => /\ \A p \in DOMAIN store.files : store'.files[p] = store.files[p]
             /\ \A p \in DOMAIN store.files :
                  flags'.quiet \/ <<"Skipped: ", p, " (already exists)">> \in
                                    {stdout'[i] : i \in DOMAIN stdout'}
             /\ DOMAIN store.files = {WorkflowPath, EnvExamplePath}
                => store'.files = store.files]_vars

\* C21 witness: a second run without --force has skipped a modified
\* .env.example and the workflow file, and succeeded.
C21_Witness ==
  /\ pc = "init"
  /\ clock = 2
  /\ exitCode = 0
  /\ ~flags.force
  /\ store.files[EnvExamplePath] = ModifiedContent
  /\ store.files[WorkflowPath] = WORKFLOW_TEMPLATE
  /\ Reported(<<"Skipped: ", EnvExamplePath, " (already exists)">>)
  /\ Reported(<<"Skipped: ", WorkflowPath, " (already exists)">>)
  /\ Reported(<<"Use --force to overwrite">>)

\* C22: after init in a directory without the two files, and after
\* init --force in any directory, the workflow file holds WORKFLOW_TEMPLATE
\* and .env.example holds ENV_EXAMPLE_TEMPLATE, whichever of .github and
\* .github/workflows existed before.
C22_InitWritesTemplates ==
  [][(InitRan /\ (flags'.force \/ DOMAIN store.files = {}))
       => /\ store'.files = Templates
          /\ {GithubDir, WorkflowDir} \subseteq store'.dirs]_vars

\* C22 witness: a run with --force has overwritten both files with the
\* templates.
C22_Witness ==
  /\ pc = "init"
  /\ clock >= 1
  /\ flags.force
  /\ store.files = Templates
  /\ Reported(<<"Created: ", WorkflowPath, " (overwritten)">>)
  /\ Reported(<<"Created: ", EnvExamplePath, " (overwritten)">>)

====
